---- MODULE Spec2Model ----
\* Verification model of rkt's kvm-flavor pod networking (networking/kvm.go):
\* kvmSetup, kvmTransformFlannelNetwork, the topology helpers and kvmTeardown.
EXTENDS Integers, Sequences, FiniteSets, TLC

VARIABLES
    pc,        \* position of the pod lifecycle: "load", "setup", "forward", "ready", "failed", "crashed", "teardown", "done", "panicked"
    idx,       \* index of the network the setup / teardown loop is at (1-based)
    declared,  \* the configuration files of the pod's networks, in declaration order
    nets,      \* network.nets: the ordered descriptors of the aggregate being built / torn down
    returned,  \* what kvmSetup returned to its caller: "pending", "nil" or "aggregate"
    err,       \* class of the error returned by kvmSetup / the transformer ("none" when no error)
    links,     \* kernel links of the host: name -> link record
    ip4fwd,    \* host-level IPv4 forwarding sysctl
    leases,    \* interface names that hold an address lease of the allocator plugin
    masq,      \* installed masquerade rules: [chain, ip, mask]
    fwd,       \* installed port-forwarding rules: [port, ip]
    calls,     \* history of the external operations attempted, in order
    log        \* entries written to stderr, in order: [msg, net]

vars == <<pc, idx, declared, nets, returned, err, links, ip4fwd, leases, masq, fwd, calls, log>>

------------------------------------------------------------------------------
\* Bounds of the model.

\* greatest number of networks declared for the pod
MaxNets == 2

------------------------------------------------------------------------------
\* Program constants (kvm.go:42-47).

defaultBrName == "kvm-cni0"
defaultSubnetFile == "/run/flannel/subnet.env"
defaultMTU == 1500

\* podID.String(), and the 4-character fragment podID.String()[0:4]
PodUUID == "abcd1234"
PodFrag == "abcd"

------------------------------------------------------------------------------
\* Go values held in a map[string]interface{}, tagged with their dynamic type,
\* and JSON documents (ConfBytes), tagged with their JSON kind.

GoString(s) == [t |-> "string", v |-> s]
GoBool(b) == [t |-> "bool", v |-> b]
GoInt(n) == [t |-> "int", v |-> n]
GoFloat(n) == [t |-> "float64", v |-> n]
GoMap(m) == [t |-> "map", v |-> m]
GoRoutes(r) == [t |-> "routes", v |-> r]

JStr(s) == [t |-> "jstring", v |-> s]
JBool(b) == [t |-> "jbool", v |-> b]
JNum(n) == [t |-> "jnumber", v |-> n]
JObj(m) == [t |-> "jobject", v |-> m]
JArr(a) == [t |-> "jarray", v |-> a]

\* the empty map / JSON object
EmptyMap == [k \in {} |-> GoBool(FALSE)]

\* m with key k set to value x (m[k] = x on a Go map)
MapSet(m, k, x) == [j \in DOMAIN m \cup {k} |-> IF j = k THEN x ELSE m[j]]

hasKey(m, k) == k \in DOMAIN m

isString(i) == i.t = "string"

\* json.Marshal of a Go value: int and float64 both become JSON numbers, a
\* cnitypes.Route marshals to an object carrying its destination CIDR.
RECURSIVE Marshal(_)
Marshal(x) ==
    CASE x.t = "string" -> JStr(x.v)
      [] x.t = "bool" -> JBool(x.v)
      [] x.t = "int" -> JNum(x.v)
      [] x.t = "float64" -> JNum(x.v)
      [] x.t = "routes" -> JArr([i \in DOMAIN x.v |-> JObj([k \in {"dst"} |-> JStr(x.v[i])])])
      [] x.t = "map" -> JObj([k \in DOMAIN x.v |-> Marshal(x.v[k])])

\* json.Unmarshal of a JSON value into an interface{}: numbers decode as float64
RECURSIVE Decode(_)
Decode(j) ==
    CASE j.t = "jstring" -> GoString(j.v)
      [] j.t = "jbool" -> GoBool(j.v)
      [] j.t = "jnumber" -> GoFloat(j.v)
      [] j.t = "jarray" -> GoRoutes([i \in DOMAIN j.v |-> j.v[i].v["dst"].v])
      [] j.t = "jobject" -> GoMap([k \in DOMAIN j.v |-> Decode(j.v[k])])

\* json.Unmarshal of one typed struct field: the field keeps its default when
\* the key is absent, and a value of another JSON kind is an unmarshal error.
FieldOk(doc, k, kind) == ~hasKey(doc.v, k) \/ doc.v[k].t = kind
Field(doc, k, kind, dflt) == IF hasKey(doc.v, k) /\ doc.v[k].t = kind THEN doc.v[k].v ELSE dflt

------------------------------------------------------------------------------
\* Lease / config readers.

\* one KEY=VALUE line of a lease file; eq is FALSE for a line without '='
Line(k, v) == [k |-> k, eq |-> TRUE, v |-> v]
BareLine(k) == [k |-> k, eq |-> FALSE, v |-> ""]

\* the files of the host that hold flannel leases; a path outside the domain
\* does not exist (os.Open fails)
HostFiles ==
    [p \in {"/run/flannel/subnet.env", "/run/flannel/nomasq.env", "/run/flannel/short.env",
            "/run/flannel/nosubnet.env", "/run/flannel/nonet.env", "/run/flannel/badcidr.env",
            "/run/flannel/badmtu.env", "/run/flannel/noeq.env"} |->
        CASE p = "/run/flannel/subnet.env" ->
                <<Line("FLANNEL_NETWORK", "10.1.0.0/16"), Line("FLANNEL_SUBNET", "10.1.17.0/24"),
                  Line("FLANNEL_MTU", "1472"), Line("FLANNEL_IPMASQ", "true")>>
          [] p = "/run/flannel/nomasq.env" ->
                <<Line("FLANNEL_NETWORK", "10.2.0.0/16"), Line("FLANNEL_SUBNET", "10.2.5.1/24"),
                  Line("FLANNEL_MTU", "1450"), Line("FLANNEL_IPMASQ", "false")>>
          [] p = "/run/flannel/short.env" ->
                <<Line("FLANNEL_SUBNET", "10.2.5.1/24"), Line("FLANNEL_NETWORK", "10.2.0.0/16"),
                  Line("FLANNEL_COMMENT", "x"), BareLine(""), Line("FLANNEL_IPMASQ", "True")>>
          [] p = "/run/flannel/nosubnet.env" ->
                <<Line("FLANNEL_NETWORK", "10.1.0.0/16"), Line("FLANNEL_MTU", "1472"),
                  Line("FLANNEL_IPMASQ", "true")>>
          [] p = "/run/flannel/nonet.env" ->
                <<Line("FLANNEL_SUBNET", "10.1.17.0/24"), Line("FLANNEL_MTU", "1472")>>
          [] p = "/run/flannel/badcidr.env" ->
                <<Line("FLANNEL_NETWORK", "10.1.0.0/16"), Line("FLANNEL_SUBNET", "10.1.17/24")>>
          [] p = "/run/flannel/badmtu.env" ->
                <<Line("FLANNEL_NETWORK", "10.1.0.0/16"), Line("FLANNEL_SUBNET", "10.1.17.0/24"),
                  Line("FLANNEL_MTU", "-1")>>
          [] p = "/run/flannel/noeq.env" ->
                <<Line("FLANNEL_NETWORK", "10.1.0.0/16"), BareLine("FLANNEL_SUBNET")>>]

\* net.ParseCIDR keeps the network of the address: "" stands for a parse error
ParseCIDR(s) ==
    CASE s = "10.1.0.0/16" -> "10.1.0.0/16"
      [] s = "10.1.17.0/24" -> "10.1.17.0/24"
      [] s = "10.2.0.0/16" -> "10.2.0.0/16"
      [] s = "10.2.5.1/24" -> "10.2.5.0/24"
      [] OTHER -> ""

\* strconv.ParseUint(s, 10, 32): -1 stands for a parse error
ParseUint(s) ==
    CASE s = "1472" -> 1472
      [] s = "1450" -> 1450
      [] OTHER -> -1

\* a nil *net.IPNet
NilNet == ""

\* the zero subnetEnv, running
ZeroEnv == [st |-> "ok", nw |-> NilNet, sn |-> NilNet, mtu |-> 0, ipmasq |-> FALSE]

\* one iteration of the scanner loop of loadFlannelSubnetEnv
ScanLine(se, l) ==
    IF se.st # "ok" THEN se
    ELSE IF l.k \in {"FLANNEL_NETWORK", "FLANNEL_SUBNET", "FLANNEL_MTU", "FLANNEL_IPMASQ"} /\ ~l.eq
         THEN [se EXCEPT !.st = "panic"]
    ELSE CASE l.k = "FLANNEL_NETWORK" ->
                IF ParseCIDR(l.v) = "" THEN [se EXCEPT !.st = "err"] ELSE [se EXCEPT !.nw = ParseCIDR(l.v)]
           [] l.k = "FLANNEL_SUBNET" ->
                IF ParseCIDR(l.v) = "" THEN [se EXCEPT !.st = "err"] ELSE [se EXCEPT !.sn = ParseCIDR(l.v)]
           [] l.k = "FLANNEL_MTU" ->
                IF ParseUint(l.v) < 0 THEN [se EXCEPT !.st = "err"] ELSE [se EXCEPT !.mtu = ParseUint(l.v)]
           [] l.k = "FLANNEL_IPMASQ" -> [se EXCEPT !.ipmasq = (l.v = "true")]
           [] OTHER -> se

RECURSIVE ScanLines(_, _, _)
ScanLines(se, lines, i) ==
    IF i > Len(lines) THEN se ELSE ScanLines(ScanLine(se, lines[i]), lines, i + 1)

loadFlannelSubnetEnv(fn) ==
    IF fn \notin DOMAIN HostFiles THEN [ZeroEnv EXCEPT !.st = "err"]
    ELSE ScanLines(ZeroEnv, HostFiles[fn], 1)

\* FlannelNetConf decoded from the descriptor's configuration bytes
loadFlannelNetConf(bytes) ==
    IF ~(FieldOk(bytes, "name", "jstring") /\ FieldOk(bytes, "subnetFile", "jstring")
         /\ FieldOk(bytes, "delegate", "jobject"))
    THEN [ok |-> FALSE, Name |-> "", SubnetFile |-> "", nilDelegate |-> TRUE, Delegate |-> EmptyMap]
    ELSE [ok |-> TRUE,
          Name |-> Field(bytes, "name", "jstring", ""),
          SubnetFile |-> Field(bytes, "subnetFile", "jstring", defaultSubnetFile),
          nilDelegate |-> ~hasKey(bytes.v, "delegate"),
          Delegate |-> IF hasKey(bytes.v, "delegate") THEN Decode(bytes.v["delegate"]).v ELSE EmptyMap]

------------------------------------------------------------------------------
\* Network descriptors (nettypes.ActiveNet).

\* interface names: a printf template prefix and the number that completes it
\* (-1 when the name has no numeric suffix)
Name(base, num) == [base |-> base, num |-> num]
NoName == Name("", -1)

\* IPv4 addresses: the network they belong to and a host number; the nil net.IP
Addr(sub, host) == [sub |-> sub, host |-> host]
NilIP == Addr("", 0)

\* *cnitypes.IPConfig: nil, the zero struct, or the block an allocator returned
NilIP4 == [st |-> "nil", IP |-> NilIP, Mask |-> 0, Gateway |-> NilIP]
ZeroIP4 == [st |-> "zero", IP |-> NilIP, Mask |-> 0, Gateway |-> NilIP]

\* netinfo.NetInfo with no runtime state
ZeroRuntime == [IfName |-> NoName, IP |-> NilIP, Mask |-> 0, HostIP |-> NilIP, IP4 |-> NilIP4]

\* nettypes.NetConf{}
ZeroConf == [Name |-> "", Type |-> "", IPMasq |-> FALSE, MTU |-> 0, IPAM |-> [Type |-> ""]]

\* podEnv.loadNets for one configuration file: the common NetConf fields are
\* parsed out of the bytes, the runtime block starts empty
loadNet(bytes) ==
    [ConfBytes |-> bytes,
     Conf |-> [Name |-> Field(bytes, "name", "jstring", ""),
               Type |-> Field(bytes, "type", "jstring", ""),
               IPMasq |-> Field(bytes, "ipMasq", "jbool", FALSE),
               MTU |-> Field(bytes, "mtu", "jnumber", 0),
               IPAM |-> [Type |-> IF hasKey(bytes.v, "ipam")
                                  THEN Field(bytes.v["ipam"], "type", "jstring", "") ELSE ""]],
     Runtime |-> ZeroRuntime]

------------------------------------------------------------------------------
\* Flannel delegate transformer.

\* if !hasKey(n.Delegate, k) { n.Delegate[k] = x }
WithDefault(d, k, x) == IF hasKey(d, k) THEN d ELSE MapSet(d, k, x)

\* the isGateway default of a bridge delegate (kvm.go:380-384)
WithGateway(d) == IF d["type"].v = "bridge" THEN WithDefault(d, "isGateway", GoBool(TRUE)) ELSE d

\* DelegateDefaults copying the overlay's masquerade flag instead of negating it
DelegateDefaults_sameMasq(n, fenv) ==
    WithGateway(WithDefault(WithDefault(WithDefault(MapSet(n.Delegate, "name", GoString(n.Name)),
                                                    "type", GoString("bridge")),
                                        "ipMasq", GoBool(fenv.ipmasq)),
                            "mtu", GoInt(fenv.mtu)))

\* the delegate map after the defaults of kvm.go:363-384 are applied
DelegateDefaults(n, fenv) ==
    WithGateway(WithDefault(WithDefault(WithDefault(MapSet(n.Delegate, "name", GoString(n.Name)),
                                                    "type", GoString("bridge")),
                                        "ipMasq", GoBool(~fenv.ipmasq)),
                            "mtu", GoInt(fenv.mtu)))

\* DelegateIPAM with the lease's two networks exchanged
DelegateIPAM_swapped(snStr, fenv) ==
    GoMap([k \in {"type", "subnet", "routes"} |->
            CASE k = "type" -> GoString("host-local")
              [] k = "subnet" -> GoString(fenv.nw)
              [] k = "routes" -> GoRoutes(<<snStr>>)])

\* the allocator sub-spec forced onto the delegate (kvm.go:386-394); snStr is
\* fenv.sn.String()
DelegateIPAM(snStr, fenv) ==
    GoMap([k \in {"type", "subnet", "routes"} |->
            CASE k = "type" -> GoString("host-local")
              [] k = "subnet" -> GoString(snStr)
              [] k = "routes" -> GoRoutes(<<fenv.nw>>)])

\* the validation of a user-supplied delegate object (kvm.go:349-361)
DelegateRejected(n) ==
    /\ ~n.nilDelegate
    /\ \/ hasKey(n.Delegate, "type") /\ ~isString(n.Delegate["type"])
       \/ hasKey(n.Delegate, "name")
       \/ hasKey(n.Delegate, "ipam")

\* the outcomes of the transformer: an error is returned and the descriptor is
\* untouched; the process aborts with the descriptor as net
Refused(net) == [st |-> "err", net |-> net]
Aborted(net) == [st |-> "panic", net |-> net]

\* the fresh descriptor of kvm.go:401-407 over the marshalled delegate
Replacement(full) ==
    [ConfBytes |-> Marshal(GoMap(full)), Conf |-> ZeroConf, Runtime |-> [ZeroRuntime EXCEPT !.IP4 = ZeroIP4]]

\* the replacement of *net and the assignments with their type assertions
\* (kvm.go:401-413): a delegate value of another dynamic type aborts the
\* process with the assignments made so far
Replaced(new, n, full) ==
    IF full["ipMasq"].t # "bool"
    THEN Aborted([new EXCEPT !.Conf.Name = n.Name, !.Conf.Type = full["type"].v])
    ELSE IF full["mtu"].t # "int"
         THEN Aborted([new EXCEPT !.Conf.Name = n.Name, !.Conf.Type = full["type"].v,
                                  !.Conf.IPMasq = full["ipMasq"].v])
    ELSE [st |-> "ok",
          net |-> [new EXCEPT !.Conf.Name = n.Name, !.Conf.Type = full["type"].v,
                              !.Conf.IPMasq = full["ipMasq"].v, !.Conf.MTU = full["mtu"].v,
                              !.Conf.IPAM.Type = "host-local"]]

\* the delegate map with the allocator sub-spec set, marshalled into the
\* replacement descriptor (kvm.go:386-413)
Delegated(n, full) == Replaced(Replacement(full), n, full)

\* kvmTransformFlannelNetwork from the validation on (kvm.go:349-413), over the
\* lease fenv; nilStr is what (*net.IPNet)(nil).String() does in the Go release
\* the program is built with: "panic" or "<nil>"
transformOver(net, n, fenv, nilStr) ==
    IF fenv.st = "err" THEN Refused(net)
    ELSE IF fenv.st = "panic" THEN Aborted(net)
    ELSE IF DelegateRejected(n) THEN Refused(net)
    ELSE IF fenv.sn = NilNet /\ nilStr = "panic" THEN Aborted(net)
    ELSE IF fenv.nw = NilNet THEN Aborted(net)
    ELSE Delegated(n, MapSet(DelegateDefaults(n, fenv), "ipam",
                             DelegateIPAM(IF fenv.sn = NilNet THEN "<nil>" ELSE fenv.sn, fenv)))

\* kvmTransformFlannelNetwork from the lease on (kvm.go:344-413), over the
\* decoded configuration n
transformConf(net, n, nilStr) ==
    IF ~n.ok THEN Refused(net) ELSE transformOver(net, n, loadFlannelSubnetEnv(n.SubnetFile), nilStr)

\* kvmTransformFlannelNetwork(net): st is "ok", "err" (an error is returned) or
\* "panic" (the process aborts); net is the descriptor as the call leaves it
kvmTransformFlannelNetwork(net, nilStr) == transformConf(net, loadFlannelNetConf(net.ConfBytes), nilStr)

------------------------------------------------------------------------------
\* The host kernel and the external collaborators, as the steps of kvm.go see
\* them.  A step works on a context c: the host state (links, ip4fwd, leases,
\* masq), the histories (calls, log), the index i and descriptor n being
\* processed, the link at hand and the error class returned so far ("none"
\* while the function is still running).  f names the one external call that
\* fails in this run of the loop body ("none": no call fails by itself).

Link(kind, mtu) == [kind |-> kind, up |-> FALSE, master |-> NoName, mtu |-> mtu, addrs |-> {}, routes |-> {}]

\* record an external operation in the history
Called(c, op, ok) ==
    [c EXCEPT !.calls = Append(@, [op |-> op, net |-> c.i, typ |-> c.n.Conf.Type, ok |-> ok])]

\* stderr.PrintE / stderr.Printf
Logged(c, msg) == [c EXCEPT !.log = Append(@, [msg |-> msg, net |-> c.i])]

\* Failed releasing the leases and removing the masquerade rules made so far
Failed_rollback(c, e) == [c EXCEPT !.err = e, !.leases = {}, !.masq = {}]

\* return an error of class e from the running function
Failed(c, e) == [c EXCEPT !.err = e]

\* links with link name nm replaced / added
WithLink(ls, nm, l) == [x \in DOMAIN ls \cup {nm} |-> IF x = nm THEN l ELSE ls[x]]
WithoutLink(ls, nm) == [x \in DOMAIN ls \ {nm} |-> ls[x]]

\* KernelNumber taking the least number whether a link carries the name or not
KernelNumber_leastAny(ls, base) ==
    CHOOSE k \in 0..Cardinality(DOMAIN ls) : \A j \in 0..Cardinality(DOMAIN ls) : k <= j

\* the number the kernel substitutes for %d in a name template: the least one free
KernelNumber(ls, base) ==
    CHOOSE k \in 0..Cardinality(DOMAIN ls) :
        /\ Name(base, k) \notin DOMAIN ls
        /\ \A j \in 0..(k - 1) : Name(base, j) \in DOMAIN ls

\* tuntap.RemovePersistentIface(name, tuntap.Tap): detaches the persistent tap
\* of that name; with a name no tap carries there is nothing to remove
RemovePersistentIface(ls, nm) ==
    IF nm \in DOMAIN ls /\ ls[nm].kind = "tap" THEN WithoutLink(ls, nm) ELSE ls

\* setupTapDevice(podID): on success c.link is the new tap
setupTapDevice(c, f) ==
    IF c.err # "none" THEN c
    ELSE LET base == "rkt-" \o PodFrag \o "-tap"
             ifName == Name(base, KernelNumber(c.links, base))
             made == [c EXCEPT !.links = WithLink(@, ifName, Link("tap", defaultMTU)), !.link = ifName]
         IN  IF f = "tuntap" THEN Failed(Called(c, "CreatePersistentIface", FALSE), "kernel")
             ELSE IF f = "tapLookup" THEN Failed(Called(made, "CreatePersistentIface", TRUE), "kernel")
             ELSE IF f = "tapUp" THEN Failed(Called(made, "CreatePersistentIface", TRUE), "kernel")
             ELSE Called([made EXCEPT !.links[ifName].up = TRUE], "CreatePersistentIface", TRUE)

\* bridgeByName without the type assertion on the link found
bridgeByName_anyKind(ls, nm, f) ==
    IF f = "brLookup" \/ nm \notin DOMAIN ls THEN "kernel" ELSE "none"

\* bridgeByName(name): "none" when the link is a bridge
bridgeByName(ls, nm, f) ==
    IF f = "brLookup" \/ nm \notin DOMAIN ls THEN "kernel"
    ELSE IF ls[nm].kind # "bridge" THEN "conflict"
    ELSE "none"

\* ensureBridgeIsUp(brName, mtu): on success c.br is the bridge
ensureBridgeIsUp(c, brName, mtu, f) ==
    IF c.err # "none" THEN c
    ELSE LET nm == Name(brName, -1)
             exists == nm \in DOMAIN c.links
             added == IF exists THEN c ELSE [c EXCEPT !.links = WithLink(@, nm, Link("bridge", mtu))]
             up == [added EXCEPT !.links[nm].up = TRUE, !.br = nm]
         IN  IF f = "brAdd" THEN Failed(Called(c, "ensureBridgeIsUp", FALSE), "kernel")
             ELSE IF exists /\ bridgeByName(c.links, nm, f) # "none"
                  THEN Failed(Called(c, "ensureBridgeIsUp", FALSE), bridgeByName(c.links, nm, f))
             ELSE IF f = "brUp" THEN Failed(Called(added, "ensureBridgeIsUp", FALSE), "kernel")
             ELSE Called(up, "ensureBridgeIsUp", TRUE)

\* netlink.LinkSetMaster(link, br) and the cleanup of kvm.go:493-499, which
\* names the interface by n.Runtime.IfName
attachToBridge(c, f) ==
    IF c.err # "none" THEN c
    ELSE IF f \in {"setMaster", "setMasterRm"}
         THEN LET rm == [c EXCEPT !.links = RemovePersistentIface(@, c.n.Runtime.IfName)]
                  tried == Called(Called(rm, "LinkSetMaster", FALSE), "RemovePersistentIface", f = "setMaster")
              IN  Failed(IF f = "setMasterRm" THEN Logged(tried, "warning: could not cleanup tap interface")
                         ELSE tried, "kernel")
         ELSE Called([c EXCEPT !.links[c.link].master = c.br], "LinkSetMaster", TRUE)

\* MacvlanModes with a default branch that accepts the mode
MacvlanModes_lenient == {"", "bridge", "private", "vepa", "passthru", "unknown"}

\* the macvlan modes setupMacVTapDevice accepts
MacvlanModes == {"", "bridge", "private", "vepa", "passthru"}

\* setupMacVTapDevice returning the bring-up error without netlink.LinkDel
setupMacVTapDevice_noDel(c, config, interfaceNumber, f) ==
    IF c.err # "none" THEN c
    ELSE LET master == Name(config.Master, -1)
             interfaceName == Name("rkt-" \o PodFrag \o "-vtap", interfaceNumber)
             mtu == IF config.MTU # 0 THEN config.MTU ELSE c.links[master].mtu
             made == [c EXCEPT !.links = WithLink(@, interfaceName, [Link("macvtap", mtu) EXCEPT !.master = master]),
                               !.link = interfaceName]
         IN  IF f = "masterLookup" \/ master \notin DOMAIN c.links
             THEN Failed(Called(c, "LinkByName", FALSE), "kernel")
             ELSE IF config.Mode \notin MacvlanModes THEN Failed(c, "unsupported")
             ELSE IF f = "vtapAdd" \/ interfaceName \in DOMAIN c.links
                  THEN Failed(Called(c, "LinkAdd", FALSE), "kernel")
             ELSE IF f \in {"vtapUp", "vtapUpDel"} THEN Failed(Called(made, "LinkAdd", TRUE), "kernel")
             ELSE Called([made EXCEPT !.links[interfaceName].up = TRUE], "LinkAdd", TRUE)

\* setupMacVTapDevice(podID, config, interfaceNumber)
setupMacVTapDevice(c, config, interfaceNumber, f) ==
    IF c.err # "none" THEN c
    ELSE LET master == Name(config.Master, -1)
             interfaceName == Name("rkt-" \o PodFrag \o "-vtap", interfaceNumber)
             mtu == IF config.MTU # 0 THEN config.MTU ELSE c.links[master].mtu
             made == [c EXCEPT !.links = WithLink(@, interfaceName, [Link("macvtap", mtu) EXCEPT !.master = master]),
                               !.link = interfaceName]
         IN  IF f = "masterLookup" \/ master \notin DOMAIN c.links
             THEN Failed(Called(c, "LinkByName", FALSE), "kernel")
             ELSE IF config.Mode \notin MacvlanModes THEN Failed(c, "unsupported")
             ELSE IF f = "vtapAdd" \/ interfaceName \in DOMAIN c.links
                  THEN Failed(Called(c, "LinkAdd", FALSE), "kernel")
             ELSE IF f = "vtapUp"
                  THEN Failed(Called(Called(c, "LinkAdd", TRUE), "LinkDel", TRUE), "kernel")
             ELSE IF f = "vtapUpDel"
                  THEN Failed(Called(Called(made, "LinkAdd", TRUE), "LinkDel", FALSE), "kernel")
             ELSE Called([made EXCEPT !.links[interfaceName].up = TRUE], "LinkAdd", TRUE)

------------------------------------------------------------------------------
\* Address allocator bridge, addresses, routes and masquerade.

\* prefix length of a network in CIDR notation
PrefixLen(sub) == IF sub \in {"10.1.0.0/16", "10.2.0.0/16"} THEN 16 ELSE 24

\* the subnet the allocator serves for a descriptor: ipam.subnet of its bytes
IpamSubnet(n) ==
    IF hasKey(n.ConfBytes.v, "ipam") /\ n.ConfBytes.v["ipam"].t = "jobject"
    THEN Field(n.ConfBytes.v["ipam"], "subnet", "jstring", "") ELSE ""

\* the IPv4 block a host-local allocator hands out: the next free host of the
\* subnet, the subnet's first host as gateway
AllocResult(ls, sub) ==
    [st |-> "set",
     IP |-> Addr(sub, 2 + Cardinality({l \in ls : l.ip.sub = sub})),
     Mask |-> PrefixLen(sub),
     Gateway |-> Addr(sub, 1)]

\* Networking.execNetPlugin(cmd, n, ifName): runs the plugin named by
\* n.Conf.Type; ADD takes a lease for the interface, DEL releases it
execNetPlugin(c, cmd, ifName, ok) ==
    LET res == AllocResult(c.leases, IpamSubnet(c.n))
        done == IF ~ok THEN c
                ELSE IF cmd = "ADD" THEN [c EXCEPT !.leases = @ \cup {[ifName |-> ifName, ip |-> res.IP]}]
                ELSE [c EXCEPT !.leases = {l \in @ : l.ifName # ifName}]
    IN  [Called(done, cmd, ok) EXCEPT !.out = res]

\* resultRecorded leaving n.Runtime.HostIP out of the assignment
resultRecorded_noHostIP(c, result) ==
    [c EXCEPT !.n.Runtime.IP = result.IP, !.n.Runtime.Mask = result.Mask, !.n.Runtime.IP4 = result]

\* the assignment of the allocator's result to the four runtime fields of the
\* descriptor (kvm.go:162)
resultRecorded(c, result) ==
    [c EXCEPT !.n.Runtime.IP = result.IP, !.n.Runtime.Mask = result.Mask,
              !.n.Runtime.HostIP = result.Gateway, !.n.Runtime.IP4 = result]

\* kvmSetupNetAddressing without the assignment n.Conf.Type = original_type
kvmSetupNetAddressing_noRestore(c, ifName, f) ==
    IF c.err # "none" THEN c
    ELSE IF f = "ip4fwd" THEN Failed(Called(c, "EnableIP4Forward", FALSE), "kernel")
    ELSE LET fwdOn == Called([c EXCEPT !.ip4fwd = TRUE], "EnableIP4Forward", TRUE)
             patched == [fwdOn EXCEPT !.n.Conf.Type = fwdOn.n.Conf.IPAM.Type]
             invoked == execNetPlugin(patched, "ADD", ifName, f # "pluginExec")
             result == invoked.out
         IN  IF f \in {"pluginExec", "pluginParse", "pluginNoIP4"} THEN Failed(invoked, "plugin")
             ELSE resultRecorded(invoked, result)

\* kvmSetupNetAddressing(network, n, ifName)
kvmSetupNetAddressing(c, ifName, f) ==
    IF c.err # "none" THEN c
    ELSE IF f = "ip4fwd" THEN Failed(Called(c, "EnableIP4Forward", FALSE), "kernel")
    ELSE LET fwdOn == Called([c EXCEPT !.ip4fwd = TRUE], "EnableIP4Forward", TRUE)
             original_type == c.n.Conf.Type
             patched == [fwdOn EXCEPT !.n.Conf.Type = fwdOn.n.Conf.IPAM.Type]
             invoked == execNetPlugin(patched, "ADD", ifName, f # "pluginExec")
             reverted == [invoked EXCEPT !.n.Conf.Type = original_type]
             result == reverted.out
         IN  IF f \in {"pluginExec", "pluginParse", "pluginNoIP4"} THEN Failed(reverted, "plugin")
             ELSE resultRecorded(reverted, result)

\* ensureHasAddr adding the address next to the addresses the link has
ensureHasAddr_override(c, nm, ipn, f) ==
    IF c.err # "none" THEN c
    ELSE IF f = "addrList" THEN Failed(Called(c, "AddrList", FALSE), "kernel")
    ELSE IF ipn \in c.links[nm].addrs THEN Called(c, "AddrList", TRUE)
    ELSE IF f = "addrAdd" THEN Failed(Called(c, "AddrAdd", FALSE), "kernel")
    ELSE Called([c EXCEPT !.links[nm].addrs = @ \cup {ipn},
                          !.links[nm].routes = @ \cup {[dst |-> Addr(ipn.ip.sub, 0), mask |-> ipn.mask]}],
                "AddrAdd", TRUE)

\* ensureHasAddr(link, ipn); adding an address makes the kernel add the
\* connected route of its network on that link
ensureHasAddr(c, nm, ipn, f) ==
    IF c.err # "none" THEN c
    ELSE IF f = "addrList" THEN Failed(Called(c, "AddrList", FALSE), "kernel")
    ELSE IF c.links[nm].addrs # {}
         THEN IF ipn \in c.links[nm].addrs THEN Called(c, "AddrList", TRUE)
              ELSE Failed(Called(c, "AddrList", TRUE), "conflict")
    ELSE IF f = "addrAdd" THEN Failed(Called(c, "AddrAdd", FALSE), "kernel")
    ELSE Called([c EXCEPT !.links[nm].addrs = @ \cup {ipn},
                          !.links[nm].routes = @ \cup {[dst |-> Addr(ipn.ip.sub, 0), mask |-> ipn.mask]}],
                "AddrAdd", TRUE)

\* removeAllRoutesOnLink that lists the routes and deletes none
removeAllRoutesOnLink_keep(c, nm, f) ==
    IF c.err # "none" THEN c
    ELSE IF f = "routeList" THEN Failed(Called(c, "RouteList", FALSE), "kernel")
    ELSE Called(c, "RouteDel", TRUE)

\* removeAllRoutesOnLink(link)
removeAllRoutesOnLink(c, nm, f) ==
    IF c.err # "none" THEN c
    ELSE IF f = "routeList" THEN Failed(Called(c, "RouteList", FALSE), "kernel")
    ELSE IF f = "routeDel" /\ c.links[nm].routes # {} THEN Failed(Called(c, "RouteDel", FALSE), "kernel")
    ELSE Called([c EXCEPT !.links[nm].routes = {}], "RouteDel", TRUE)

\* addRoute(link, podIP): a /32 route to the pod through the link
addRoute(c, nm, podIP, f) ==
    IF c.err # "none" THEN c
    ELSE IF f = "routeAdd" THEN Failed(Called(c, "RouteAdd", FALSE), "kernel")
    ELSE Called([c EXCEPT !.links[nm].routes = @ \cup {[dst |-> podIP, mask |-> 32]}], "RouteAdd", TRUE)

\* sha512.Sum512 of the pod UUID string, first 8 bytes: an injective tag of its input
Sum512(str) == "sha512:" \o str

\* getChainName(podUUIDString, confName)
getChainName(podUUIDString, confName) == "CNI-" \o confName \o "-" \o Sum512(podUUIDString)

\* the chain and subnet kvmSetup passes to ip.SetupIPMasq (kvm.go:545-549)
setupRule(n) == [chain |-> getChainName(PodUUID, n.Conf.Name), ip |-> n.Runtime.IP, mask |-> n.Runtime.Mask]

\* teardownRule taking the subnet from the host side of the descriptor
teardownRule_hostIP(n) == [chain |-> getChainName(PodUUID, n.Conf.Name), ip |-> n.Runtime.HostIP, mask |-> n.Runtime.Mask]

\* the chain and subnet teardownKvmNets passes to ip.TeardownIPMasq (kvm.go:601-605)
teardownRule(n) == [chain |-> getChainName(PodUUID, n.Conf.Name), ip |-> n.Runtime.IP, mask |-> n.Runtime.Mask]

\* the masquerade step of kvmSetup (kvm.go:544-552)
setupIPMasq(c, f) ==
    IF c.err # "none" \/ ~c.n.Conf.IPMasq THEN c
    ELSE IF f = "masq" THEN Failed(Called(c, "SetupIPMasq", FALSE), "kernel")
    ELSE Called([c EXCEPT !.masq = @ \cup {setupRule(c.n)}], "SetupIPMasq", TRUE)

------------------------------------------------------------------------------
\* kvmSetup: the body of the loop over network.nets.

\* json.Unmarshal of the common NetConf fields succeeds
NetConfFieldsOk(bytes) ==
    /\ FieldOk(bytes, "name", "jstring") /\ FieldOk(bytes, "type", "jstring")
    /\ FieldOk(bytes, "mtu", "jnumber") /\ FieldOk(bytes, "ipMasq", "jbool")
    /\ FieldOk(bytes, "ipam", "jobject")

\* BridgeNetConf decoded over its defaults (kvm.go:474-482)
loadBridgeNetConf(bytes) ==
    [ok |-> NetConfFieldsOk(bytes) /\ FieldOk(bytes, "bridge", "jstring") /\ FieldOk(bytes, "isGateway", "jbool"),
     MTU |-> Field(bytes, "mtu", "jnumber", defaultMTU),
     BrName |-> Field(bytes, "bridge", "jstring", defaultBrName),
     IsGw |-> Field(bytes, "isGateway", "jbool", FALSE)]

\* MacVTapNetConf decoded (kvm.go:524-527)
loadMacVTapNetConf(bytes) ==
    [ok |-> NetConfFieldsOk(bytes) /\ FieldOk(bytes, "master", "jstring") /\ FieldOk(bytes, "mode", "jstring"),
     MTU |-> Field(bytes, "mtu", "jnumber", 0),
     Master |-> Field(bytes, "master", "jstring", ""),
     Mode |-> Field(bytes, "mode", "jstring", "")]

\* NameRecorded without the assignment to n.Runtime.IfName
NameRecorded_forgotten(c) == c

\* n.Runtime.IfName = link.Attrs().Name
NameRecorded(c) == IF c.err # "none" THEN c ELSE [c EXCEPT !.n.Runtime.IfName = c.link]

\* the gateway address the descriptor's runtime block names
GatewayNet(c) == [ip |-> c.n.Runtime.IP4.Gateway, mask |-> c.n.Runtime.Mask]

\* case "ptp" (kvm.go:440-471)
setupPtp(c, f) ==
    LET named == NameRecorded(setupTapDevice(c, f))
        addressed == kvmSetupNetAddressing(named, named.link, f)
        hostAddr == ensureHasAddr(addressed, addressed.link, GatewayNet(addressed), f)
        cleared == removeAllRoutesOnLink(hostAddr, hostAddr.link, f)
    IN  addRoute(cleared, cleared.link, cleared.n.Runtime.IP, f)

\* case "bridge" (kvm.go:473-521)
setupBridge(c, f) ==
    LET config == loadBridgeNetConf(c.n.ConfBytes)
        br == ensureBridgeIsUp(c, config.BrName, config.MTU, f)
        named == NameRecorded(attachToBridge(setupTapDevice(br, f), f))
        addressed == kvmSetupNetAddressing(named, named.link, f)
    IN  IF ~config.ok THEN Failed(c, "config")
        ELSE IF config.IsGw THEN ensureHasAddr(addressed, addressed.br, GatewayNet(addressed), f)
        ELSE addressed

\* case "macvlan" (kvm.go:523-538); i is the index of the range loop
setupMacvlan(c, i, f) ==
    LET config == loadMacVTapNetConf(c.n.ConfBytes)
        named == NameRecorded(setupMacVTapDevice(c, config, i, f))
    IN  IF ~config.ok THEN Failed(c, "config")
        ELSE kvmSetupNetAddressing(named, named.link, f)

\* the context after the transformer returned t (kvm.go:435-437)
afterTransform(c, t) ==
    [Called(c, "kvmTransformFlannelNetwork", t.st = "ok")
        EXCEPT !.n = t.net,
               !.err = CASE t.st = "ok" -> "none" [] t.st = "err" -> "config" [] OTHER -> "panic"]

\* the flannel step of the loop (kvm.go:434-438): "panic" aborts the process
transformed(c, nilStr) ==
    IF c.n.Conf.Type # "flannel" THEN c ELSE afterTransform(c, kvmTransformFlannelNetwork(c.n, nilStr))

\* the type dispatch of the loop (kvm.go:439-542)
provisioned(c, f) ==
    IF c.err # "none" THEN c
    ELSE CASE c.n.Conf.Type = "ptp" -> setupPtp(c, f)
           [] c.n.Conf.Type = "bridge" -> setupBridge(c, f)
           [] c.n.Conf.Type = "macvlan" -> setupMacvlan(c, c.i - 1, f)
           [] OTHER -> Failed(c, "unsupported")

\* setupNet installing the masquerade rule before the type dispatch
setupNet_masqFirst(c, f, nilStr) == provisioned(setupIPMasq(transformed(c, nilStr), f), f)

\* one iteration of the loop of kvmSetup (kvm.go:433-554)
setupNet(c, f, nilStr) == setupIPMasq(provisioned(transformed(c, nilStr), f), f)

\* the external calls of one iteration that can fail by themselves
SetupFaults ==
    {"none", "tuntap", "tapLookup", "tapUp", "brAdd", "brLookup", "brUp", "setMaster", "setMasterRm",
     "masterLookup", "vtapAdd", "vtapUp", "vtapUpDel", "ip4fwd", "pluginExec", "pluginParse",
     "pluginNoIP4", "addrList", "addrAdd", "routeList", "routeDel", "routeAdd", "masq"}

------------------------------------------------------------------------------
\* kvmTeardown: the body of the loop of teardownKvmNets.

\* the allocator release and masquerade removal of kvm.go:592-609; fs is the
\* set of external calls that fail by themselves in this iteration
released(c, fs) ==
    LET patched == [c EXCEPT !.n.Conf.Type = c.n.Conf.IPAM.Type]
        invoked == execNetPlugin(patched, "DEL", patched.n.Runtime.IfName, "pluginDEL" \notin fs)
        del == IF "pluginDEL" \in fs THEN Logged(invoked, "error executing network plugin") ELSE invoked
    IN  IF ~del.n.Conf.IPMasq THEN del
        ELSE IF "teardownMasq" \in fs
             THEN Logged(Called(del, "TeardownIPMasq", FALSE), "error on removing masquerading")
        ELSE Called([del EXCEPT !.masq = @ \ {teardownRule(del.n)}], "TeardownIPMasq", TRUE)

\* teardownNet removing the device of every descriptor as a tap interface
teardownNet_tapOnly(c, fs) ==
    released(Called([c EXCEPT !.links = IF "rmTap" \in fs THEN @ ELSE RemovePersistentIface(@, c.n.Runtime.IfName)],
                    "RemovePersistentIface", "rmTap" \notin fs), fs)

\* one iteration of the loop of teardownKvmNets (kvm.go:569-610)
teardownNet(c, fs) ==
    LET ifName == c.n.Runtime.IfName
    IN  CASE c.n.Conf.Type \in {"ptp", "bridge"} ->
                released(Called([c EXCEPT !.links = IF "rmTap" \in fs THEN @ ELSE RemovePersistentIface(@, ifName)],
                                "RemovePersistentIface", "rmTap" \notin fs), fs)
          [] c.n.Conf.Type = "macvlan" ->
                IF "linkByName" \in fs \/ ifName \notin DOMAIN c.links
                THEN Logged(Called(c, "LinkByName", FALSE), "cannot find link")
                ELSE IF "linkDel" \in fs
                     THEN Logged(Called(Called(c, "LinkByName", TRUE), "LinkDel", FALSE), "cannot remove link")
                ELSE released(Called(Called([c EXCEPT !.links = WithoutLink(@, ifName)], "LinkByName", TRUE),
                                     "LinkDel", TRUE), fs)
          [] OTHER -> Logged(c, "unsupported network type")

\* the external calls of one teardown iteration that can fail by themselves
TeardownFaults(n) ==
    CASE n.Conf.Type \in {"ptp", "bridge"} -> {"rmTap", "pluginDEL", "teardownMasq"}
      [] n.Conf.Type = "macvlan" -> {"linkByName", "linkDel", "pluginDEL", "teardownMasq"}
      [] OTHER -> {}

------------------------------------------------------------------------------
\* Inputs: the network configurations a pod can declare, and the host.

\* a JSON object from a record, keys whose value is Absent left out
Absent == [t |-> "absent", v |-> 0]
Prune(m) == JObj([k \in {j \in DOMAIN m : m[j].t # "absent"} |-> m[k]])

\* the allocator sub-spec of a user-written configuration
Ipam(sub) == Prune([type |-> JStr("host-local"), subnet |-> JStr(sub)])

NetJSON(type, ipMasq, sub, bridge, isGw, master, mode, mtu, subnetFile, delegate) ==
    [type |-> JStr(type), ipMasq |-> ipMasq, ipam |-> IF sub = "" THEN Absent ELSE Ipam(sub),
     bridge |-> bridge, isGateway |-> isGw, master |-> master, mode |-> mode, mtu |-> mtu,
     subnetFile |-> subnetFile, delegate |-> delegate]

PtpJSON(ipMasq) == NetJSON("ptp", ipMasq, "10.0.1.0/24", Absent, Absent, Absent, Absent, Absent, Absent, Absent)
BridgeJSON(ipMasq, sub, bridge, isGw) == NetJSON("bridge", ipMasq, sub, bridge, isGw, Absent, Absent, Absent, Absent, Absent)
MacvlanJSON(ipMasq, master, mode, mtu) == NetJSON("macvlan", ipMasq, "10.0.4.0/24", Absent, Absent, master, mode, mtu, Absent, Absent)
FlannelJSON(subnetFile, delegate) == NetJSON("flannel", Absent, "", Absent, Absent, Absent, Absent, Absent, subnetFile, delegate)

\* the configurations the pod's networks are drawn from
NetChoices ==
    {PtpJSON(JBool(TRUE)), PtpJSON(Absent),
     BridgeJSON(JBool(TRUE), "10.0.2.0/24", Absent, JBool(TRUE)),
     BridgeJSON(Absent, "10.0.2.0/24", Absent, Absent),
     BridgeJSON(Absent, "10.0.3.0/24", Absent, JBool(TRUE)),
     BridgeJSON(Absent, "10.0.2.0/24", JStr("eth0"), Absent),
     BridgeJSON(Absent, "10.0.2.0/24", JStr("br0"), JBool(TRUE)),
     MacvlanJSON(Absent, JStr("eth0"), Absent, Absent),
     MacvlanJSON(JBool(TRUE), JStr("eth0"), JStr("passthru"), JNum(1400)),
     MacvlanJSON(Absent, JStr("eth0"), JStr("unknown"), Absent),
     MacvlanJSON(Absent, JStr("eth9"), JStr("unknown"), Absent),
     MacvlanJSON(Absent, JNum(0), JStr("unknown"), Absent),
     FlannelJSON(Absent, Absent),
     FlannelJSON(JStr("/run/flannel/nomasq.env"), Prune([type |-> JStr("ptp")])),
     FlannelJSON(Absent, Prune([type |-> JStr("macvlan"), master |-> JStr("eth0")])),
     FlannelJSON(Absent, Prune([name |-> JStr("mine")])),
     FlannelJSON(Absent, Prune([type |-> JStr("ipvlan")])),
     FlannelJSON(Absent, Prune([mtu |-> JNum(1400)])),
     NetJSON("ipvlan", Absent, "10.0.1.0/24", Absent, Absent, Absent, Absent, Absent, Absent, Absent)}

\* the configuration bytes of the i-th declared network
NetBytes(choice, i) == Prune([k \in DOMAIN choice \cup {"name"} |->
                                IF k = "name" THEN JStr("net" \o ToString(i)) ELSE choice[k]])

\* the network lists a pod can declare
NetLists == UNION {[1..k -> NetChoices] : k \in 1..MaxNets}

\* the declared port forwards of the pod
Fps == <<[proto |-> "tcp", hostPort |-> 8080, podPort |-> 80],
         [proto |-> "udp", hostPort |-> 5353, podPort |-> 53]>>

\* the links of the host before the pod starts: an uplink, and a bridge that
\* carries an address of its own
HostLinks ==
    [nm \in {Name("eth0", -1), Name("br0", -1)} |->
        IF nm.base = "eth0" THEN [Link("device", defaultMTU) EXCEPT !.up = TRUE]
        ELSE [Link("bridge", defaultMTU) EXCEPT !.up = TRUE,
                                              !.addrs = {[ip |-> Addr("192.168.0.0/24", 1), mask |-> 24]}]]

------------------------------------------------------------------------------
\* The pod lifecycle: kvmSetup, then kvmTeardown on what it returned.

\* the context of iteration i of a loop over nets
Ctx(i) ==
    [links |-> links, ip4fwd |-> ip4fwd, leases |-> leases, masq |-> masq, calls |-> calls, log |-> log,
     i |-> i, n |-> nets[i], err |-> "none", link |-> NoName, br |-> NoName, out |-> NilIP4]

\* the host state and histories a finished step leaves
Host(c) ==
    /\ links' = c.links
    /\ ip4fwd' = c.ip4fwd
    /\ leases' = c.leases
    /\ masq' = c.masq
    /\ calls' = c.calls
    /\ log' = c.log

\* the pod is created with its declared networks; nothing is provisioned yet
Init ==
    /\ pc = "load"
    /\ idx = 1
    /\ \E l \in NetLists : declared = [i \in DOMAIN l |-> NetBytes(l[i], i)]
    /\ nets = [i \in DOMAIN declared |-> loadNet(declared[i])]
    /\ returned = "pending"
    /\ err = "none"
    /\ links = HostLinks
    /\ ip4fwd = FALSE
    /\ leases = {}
    /\ masq = {}
    /\ fwd = {}
    /\ calls = <<>>
    /\ log = <<>>

\* kvmSetup up to the loop: network.loadNets() (kvm.go:419-431)
LoadNets ==
    /\ pc = "load"
    /\ \E ok \in BOOLEAN :
        /\ pc' = IF ok THEN "setup" ELSE "failed"
        /\ returned' = IF ok THEN returned ELSE "nil"
        /\ err' = IF ok THEN err ELSE "config"
    /\ UNCHANGED <<idx, declared, nets, links, ip4fwd, leases, masq, fwd, calls, log>>

\* what (*net.IPNet)(nil).String() can do, which only the transformer observes
NilStrings(n) == IF n.Conf.Type = "flannel" THEN {"panic", "<nil>"} ELSE {"<nil>"}

\* iterated leaving the loop for the port forwards after any network that
\* was provisioned
iterated_forwardEarly(c) ==
    /\ Host(c)
    /\ nets' = [nets EXCEPT ![idx] = c.n]
    /\ err' = c.err
    /\ idx' = IF c.err = "none" THEN idx + 1 ELSE idx
    /\ pc' = CASE c.err = "panic" -> "crashed"
               [] c.err # "none" -> "failed"
               [] OTHER -> "forward"
    /\ returned' = IF c.err \in {"none", "panic"} THEN returned ELSE "nil"

\* what an iteration that ended in context c leaves: the descriptor stored
\* back, and kvmSetup returning nil and the error when the iteration failed
iterated(c) ==
    /\ Host(c)
    /\ nets' = [nets EXCEPT ![idx] = c.n]
    /\ err' = c.err
    /\ idx' = IF c.err = "none" THEN idx + 1 ELSE idx
    /\ pc' = CASE c.err = "panic" -> "crashed"
               [] c.err # "none" -> "failed"
               [] idx = Len(nets) -> "forward"
               [] OTHER -> "setup"
    /\ returned' = IF c.err \in {"none", "panic"} THEN returned ELSE "nil"

\* one iteration of the loop of kvmSetup, with its returns (kvm.go:433-554)
SetupNet ==
    /\ pc = "setup"
    /\ \E f \in SetupFaults, nilStr \in NilStrings(nets[idx]) : iterated(setupNet(Ctx(idx), f, nilStr))
    /\ UNCHANGED <<declared, fwd>>

\* network.GetDefaultIP(): the address of the pod's first network
GetDefaultIP == nets[1].Runtime.IP

\* the end of kvmSetup (kvm.go:555-559): forwardPorts installs the rules in
\* order and stops at the first one that fails (k rules get installed)
ForwardPorts ==
    /\ pc = "forward"
    /\ \E k \in 0..Len(Fps) :
        /\ fwd' = fwd \cup {[port |-> Fps[j], ip |-> GetDefaultIP] : j \in 1..k}
        /\ calls' = Append(calls, [op |-> "forwardPorts", net |-> 0, typ |-> "", ok |-> k = Len(Fps)])
        /\ pc' = IF k = Len(Fps) THEN "ready" ELSE "failed"
        /\ returned' = IF k = Len(Fps) THEN "aggregate" ELSE "nil"
        /\ err' = IF k = Len(Fps) THEN "none" ELSE "kernel"
    /\ UNCHANGED <<idx, declared, nets, links, ip4fwd, leases, masq, log>>

\* kvmTeardown on the aggregate kvmSetup returned, up to the loop (kvm.go:615-620)
UnforwardPorts ==
    /\ pc = "ready"
    /\ \E ok \in BOOLEAN :
        /\ fwd' = IF ok THEN {} ELSE fwd
        /\ calls' = Append(calls, [op |-> "unforwardPorts", net |-> 0, typ |-> "", ok |-> ok])
        /\ log' = IF ok THEN log ELSE Append(log, [msg |-> "error removing forwarded ports (kvm)", net |-> 0])
    /\ pc' = "teardown"
    /\ idx' = 1
    /\ UNCHANGED <<declared, nets, returned, err, links, ip4fwd, leases, masq>>

\* tornDown leaving the loop when the iteration wrote to the log
tornDown_break(c) ==
    /\ Host(c)
    /\ nets' = [nets EXCEPT ![idx] = c.n]
    /\ idx' = idx + 1
    /\ pc' = IF idx = Len(nets) \/ Len(c.log) > Len(log) THEN "done" ELSE "teardown"

\* what a teardown iteration that ended in context c leaves: the descriptor as
\* the iteration left it, and the loop at the next descriptor (`continue` and
\* the end of the body alike)
tornDown(c) ==
    /\ Host(c)
    /\ nets' = [nets EXCEPT ![idx] = c.n]
    /\ idx' = idx + 1
    /\ pc' = IF idx = Len(nets) THEN "done" ELSE "teardown"

\* one iteration of the loop of teardownKvmNets (kvm.go:569-610)
TeardownNet ==
    /\ pc = "teardown"
    /\ \E fs \in SUBSET TeardownFaults(nets[idx]) : tornDown(teardownNet(Ctx(idx), fs))
    /\ UNCHANGED <<declared, returned, err, fwd>>

\* kvmTeardown when kvmSetup failed: the caller holds the nil *Networking that
\* kvmSetup returned, and evaluating its fields aborts the call
TeardownNil ==
    /\ pc = "failed"
    /\ pc' = "panicked"
    /\ UNCHANGED <<idx, declared, nets, returned, err, links, ip4fwd, leases, masq, fwd, calls, log>>

Next == LoadNets \/ SetupNet \/ ForwardPorts \/ UnforwardPorts \/ TeardownNet \/ TeardownNil

Spec == Init /\ [][Next]_vars

------------------------------------------------------------------------------
\* A pod with one overlay network, over the overlay configurations and lease
\* files the transformer can meet.

DelegateChoices ==
    {Absent, JStr("bridge")} \cup
    {Prune([type |-> ty, name |-> nm, ipam |-> ia, ipMasq |-> mq, mtu |-> mt, isGateway |-> gw]) :
        ty \in {Absent, JStr("bridge"), JStr("ptp"), JStr("macvlan"), JStr("ipvlan"), JNum(7)},
        nm \in {Absent, JStr("mine")},
        ia \in {Absent, Ipam("10.9.0.0/24")},
        mq \in {Absent, JBool(TRUE), JBool(FALSE), JStr("yes")},
        mt \in {Absent, JNum(1400)},
        gw \in {Absent, JBool(FALSE)}}

SubnetFileChoices ==
    {Absent, JNum(3), JStr("/run/flannel/missing.env")} \cup {JStr(p) : p \in DOMAIN HostFiles}

InitFlannel ==
    /\ pc = "load"
    /\ idx = 1
    /\ \E sf \in SubnetFileChoices, dg \in DelegateChoices :
        declared = <<NetBytes(FlannelJSON(sf, dg), 1)>>
    /\ nets = [i \in DOMAIN declared |-> loadNet(declared[i])]
    /\ returned = "pending"
    /\ err = "none"
    /\ links = HostLinks
    /\ ip4fwd = FALSE
    /\ leases = {}
    /\ masq = {}
    /\ fwd = {}
    /\ calls = <<>>
    /\ log = <<>>

SpecFlannel == InitFlannel /\ [][Next]_vars

\* The pod lifecycle when every kernel call and plugin invocation returns:
\* the step in progress of a started kvmSetup or teardownKvmNets completes.
\* Whether and when the caller invokes kvmTeardown is left open.

Positions == {"load", "setup", "forward", "ready", "failed", "crashed", "teardown", "done", "panicked"}

\* the step in progress at position `at` completes: the program leaves the
\* position or goes on to the next descriptor
StepReturns(at) == pc = at /\ pc' \in Positions /\ idx' \in {idx, idx + 1}

SpecLive ==
    /\ Init /\ [][Next]_vars
    /\ WF_<<pc, idx>>(StepReturns("load")) /\ WF_<<pc, idx>>(StepReturns("setup"))
    /\ WF_<<pc, idx>>(StepReturns("forward")) /\ WF_<<pc, idx>>(StepReturns("teardown"))

------------------------------------------------------------------------------
\* kvmTeardown on an aggregate whose descriptors carry any recorded type: the
\* types kvmSetup provisions, a type it does not, and the allocator sub-type
\* that an earlier teardownKvmNets left in the descriptor.

\* (type, ipMasq) of the recorded descriptors
RecordedChoices ==
    {<<"ptp", TRUE>>, <<"bridge", FALSE>>, <<"macvlan", TRUE>>, <<"flannel", FALSE>>, <<"host-local", TRUE>>}

\* the interface a descriptor of type ty at position i was given
RecordedIfName(i, ty) ==
    IF ty = "macvlan" THEN Name("rkt-" \o PodFrag \o "-vtap", i - 1) ELSE Name("rkt-" \o PodFrag \o "-tap", i - 1)

\* the descriptor at position i, recorded with type and ipMasq ch
Recorded(i, ch) ==
    [loadNet(NetBytes(PtpJSON(Absent), i)) EXCEPT
        !.Conf.Type = ch[1], !.Conf.IPMasq = ch[2],
        !.Runtime = [ZeroRuntime EXCEPT !.IfName = RecordedIfName(i, ch[1]),
                                        !.IP = Addr("10.0.1.0/24", i + 1),
                                        !.Mask = PrefixLen("10.0.1.0/24"),
                                        !.HostIP = Addr("10.0.1.0/24", 1)]]

\* the links of the host when every recorded interface exists
RecordedLinks(ns) ==
    [nm \in DOMAIN HostLinks \cup {ns[i].Runtime.IfName : i \in DOMAIN ns} |->
        IF nm \in DOMAIN HostLinks THEN HostLinks[nm]
        ELSE IF nm.base = "rkt-" \o PodFrag \o "-vtap"
             THEN [Link("macvtap", defaultMTU) EXCEPT !.up = TRUE, !.master = Name("eth0", -1)]
        ELSE [Link("tap", defaultMTU) EXCEPT !.up = TRUE]]

InitTeardown ==
    /\ pc = "ready"
    /\ idx = 1
    /\ \E k \in 1..MaxNets : \E l \in [1..k -> RecordedChoices] :
        /\ declared = [i \in 1..k |-> NetBytes(PtpJSON(Absent), i)]
        /\ nets = [i \in 1..k |-> Recorded(i, l[i])]
    /\ returned = "aggregate"
    /\ err = "none"
    /\ links = RecordedLinks(nets)
    /\ ip4fwd = TRUE
    /\ leases = {[ifName |-> nets[i].Runtime.IfName, ip |-> nets[i].Runtime.IP] : i \in DOMAIN nets}
    /\ masq = {teardownRule(nets[i]) : i \in {j \in DOMAIN nets : nets[j].Conf.IPMasq}}
    /\ fwd = {[port |-> Fps[j], ip |-> GetDefaultIP] : j \in DOMAIN Fps}
    /\ calls = <<>>
    /\ log = <<>>

NextTeardown == UnforwardPorts \/ TeardownNet

SpecTeardown == InitTeardown /\ [][NextTeardown]_vars

------------------------------------------------------------------------------
\* Two pods whose kvmSetup runs at the same time on one host, each with one
\* bridge network on the default bridge that is the gateway of the same
\* subnet. Nothing in kvmSetup serializes the pods, so the kernel calls of
\* ensureBridgeIsUp and ensureHasAddr interleave; each call is atomic in the
\* kernel. Here pc and err hold one value per pod.

Pods == {1, 2}

\* the bridge both pods name, and the gateway address both put on it
SharedBr == Name(defaultBrName, -1)
SharedGw == [ip |-> Addr("10.0.2.0/24", 1), mask |-> PrefixLen("10.0.2.0/24")]
SharedNet == NetBytes(BridgeJSON(Absent, "10.0.2.0/24", Absent, JBool(TRUE)), 1)

\* the default bridge as the host can hold it before the pods start: absent,
\* present without an address, present with the gateway address
SharedHosts ==
    {HostLinks,
     WithLink(HostLinks, SharedBr, [Link("bridge", defaultMTU) EXCEPT !.up = TRUE]),
     WithLink(HostLinks, SharedBr, [Link("bridge", defaultMTU) EXCEPT !.up = TRUE, !.addrs = {SharedGw}])}

\* pod p moves to position at, having made kernel call op
PodStep(p, at, e, op, ok) ==
    /\ pc' = [pc EXCEPT ![p] = at]
    /\ err' = [err EXCEPT ![p] = e]
    /\ calls' = Append(calls, [op |-> op, net |-> p, typ |-> "bridge", ok |-> ok])
    /\ UNCHANGED <<idx, declared, nets, returned, ip4fwd, leases, masq, fwd, log>>

InitConcurrent ==
    /\ pc = [p \in Pods |-> "linkAdd"]
    /\ idx = 1
    /\ declared = [p \in Pods |-> SharedNet]
    /\ nets = [p \in Pods |-> loadNet(SharedNet)]
    /\ returned = "pending"
    /\ err = [p \in Pods |-> "none"]
    /\ links \in SharedHosts
    /\ ip4fwd = FALSE
    /\ leases = {}
    /\ masq = {}
    /\ fwd = {}
    /\ calls = <<>>
    /\ log = <<>>

\* ensureBridgeIsUp: netlink.LinkAdd(br) (kvm.go:210-214); the kernel answers
\* EEXIST when a link carries the name
BrLinkAdd(p) ==
    /\ pc[p] = "linkAdd"
    /\ IF SharedBr \in DOMAIN links
       THEN links' = links /\ PodStep(p, "lookup", "none", "LinkAdd", FALSE)
       ELSE /\ links' = WithLink(links, SharedBr, Link("bridge", loadBridgeNetConf(nets[p].ConfBytes).MTU))
            /\ PodStep(p, "setUp", "none", "LinkAdd", TRUE)

\* ensureBridgeIsUp: bridgeByName(brName) after EEXIST (kvm.go:216-220)
BrLookup(p) ==
    /\ pc[p] = "lookup"
    /\ links' = links
    /\ IF bridgeByName(links, SharedBr, "none") = "none"
       THEN PodStep(p, "setUp", "none", "LinkByName", TRUE)
       ELSE PodStep(p, "failed", bridgeByName(links, SharedBr, "none"), "LinkByName", FALSE)

\* ensureBridgeIsUp: netlink.LinkSetUp(br) (kvm.go:222-224)
BrSetUp(p) ==
    /\ pc[p] = "setUp"
    /\ links' = [links EXCEPT ![SharedBr].up = TRUE]
    /\ PodStep(p, "tap", "none", "LinkSetUp", TRUE)

\* the pod's own tap, created and attached to the bridge (kvm.go:488-502)
TapAttach(p) ==
    /\ pc[p] = "tap"
    /\ LET base == "rkt-" \o PodFrag \o ToString(p) \o "-tap"
       IN  links' = WithLink(links, Name(base, KernelNumber(links, base)),
                             [Link("tap", defaultMTU) EXCEPT !.up = TRUE, !.master = SharedBr])
    /\ PodStep(p, "addrList", "none", "LinkSetMaster", TRUE)

\* ensureHasAddr: netlink.AddrList(link) and the comparison of what it
\* returned (kvm.go:166-181)
GwAddrList(p) ==
    /\ pc[p] = "addrList"
    /\ links' = links
    /\ IF links[SharedBr].addrs = {} THEN PodStep(p, "addrAdd", "none", "AddrList", TRUE)
       ELSE IF SharedGw \in links[SharedBr].addrs THEN PodStep(p, "done", "none", "AddrList", TRUE)
       ELSE PodStep(p, "failed", "conflict", "AddrList", TRUE)

\* ensureHasAddr: netlink.AddrAdd(link, addr) (kvm.go:183-187); the kernel
\* answers EEXIST when the link carries the address already
GwAddrAdd(p) ==
    /\ pc[p] = "addrAdd"
    /\ IF SharedGw \in links[SharedBr].addrs
       THEN links' = links /\ PodStep(p, "failed", "kernel", "AddrAdd", FALSE)
       ELSE /\ links' = [links EXCEPT ![SharedBr].addrs = @ \cup {SharedGw},
                                      ![SharedBr].routes = @ \cup {[dst |-> Addr(SharedGw.ip.sub, 0), mask |-> SharedGw.mask]}]
            /\ PodStep(p, "done", "none", "AddrAdd", TRUE)

NextConcurrent ==
    \E p \in Pods : BrLinkAdd(p) \/ BrLookup(p) \/ BrSetUp(p) \/ TapAttach(p) \/ GwAddrList(p) \/ GwAddrAdd(p)

SpecConcurrent == InitConcurrent /\ [][NextConcurrent]_vars

------------------------------------------------------------------------------
\* Vocabulary of the properties.

\* positions of the history that belong to kvmTeardown
TeardownCalls == {k \in DOMAIN calls : \E u \in 1..k : calls[u].op = "unforwardPorts"}

\* the operations teardown attempted for network i
TeardownOps(i) == {calls[k].op : k \in {j \in TeardownCalls : calls[j].net = i}}

\* the operations setup attempted for network i
SetupOps(i) == {calls[k].op : k \in {j \in DOMAIN calls \ TeardownCalls : calls[j].net = i}}

\* the device-removal operations of teardown
DeviceRemovalOps == {"RemovePersistentIface", "LinkByName", "LinkDel"}

\* teardown calls for network i that failed, and log entries written for it
FailedTeardownCalls(i) == {k \in TeardownCalls : calls[k].net = i /\ ~calls[k].ok}
LogEntries(i) == {k \in DOMAIN log : log[k].net = i}

\* kvmSetup stopped at network idx (not at the port forwards)
FailedAtNetwork == pc \in {"failed", "crashed", "panicked"} /\ \A k \in DOMAIN calls : calls[k].op # "forwardPorts"

------------------------------------------------------------------------------
\* C1: in teardown, every descriptor whose device removal was started (the
\* ptp, bridge and macvlan descriptors) also gets the allocator DEL and, when
\* it has masquerade enabled, the masquerade rule removal, whatever failed
\* before.
C1_AllCleanupAttempted ==
    pc = "done" =>
        \A i \in DOMAIN nets :
            TeardownOps(i) \cap DeviceRemovalOps # {} =>
                /\ "DEL" \in TeardownOps(i)
                /\ nets[i].Conf.IPMasq => "TeardownIPMasq" \in TeardownOps(i)

\* C2: kvmTeardown returns normally whatever fails, visits every descriptor
\* even when port-forward removal failed, and every failed step leaves a log
\* entry.
C2_TeardownLogsEveryFailure ==
    /\ pc = "teardown" => returned = "aggregate"
    /\ pc = "done" =>
        /\ \A i \in DOMAIN nets : TeardownOps(i) # {} \/ LogEntries(i) # {}
        /\ \A i \in DOMAIN nets \cup {0} : Cardinality(LogEntries(i)) >= Cardinality(FailedTeardownCalls(i))

\* C3: kvmSetup fails as a unit: a failure while provisioning a network makes
\* it return an error and no aggregate, with no later network touched and no
\* port-forwarding rule installed; an aggregate is returned only when every
\* network and the port forwards succeeded.
C3_SetupFailsAsUnit ==
    /\ FailedAtNetwork =>
        /\ returned = "nil" /\ err \notin {"none", "panic"}
        /\ fwd = {}
        /\ \A k \in DOMAIN calls : calls[k].net <= idx
        /\ \A i \in DOMAIN nets : i > idx => nets[i].Runtime = ZeroRuntime
    /\ pc = "failed" => returned = "nil"
    /\ returned = "aggregate" =>
        /\ err = "none"
        /\ \A i \in DOMAIN nets : nets[i].Runtime.IfName # NoName /\ nets[i].Runtime.IP4.st = "set"
        /\ \E k \in DOMAIN calls : calls[k].op = "forwardPorts" /\ calls[k].ok
    /\ pc = "ready" => returned = "aggregate" /\ Cardinality(fwd) = Len(Fps)

\* C4: after network A was provisioned and a later network B failed, a
\* teardown of the pod does not raise and attempts the removal of A's
\* interface, lease and masquerade rule.
C4_TeardownAfterPartialSetup ==
    (pc \in {"done", "panicked"} /\ FailedAtNetwork /\ idx > 1) =>
        /\ pc = "done"
        /\ \A i \in 1..(idx - 1) :
            /\ TeardownOps(i) \cap DeviceRemovalOps # {}
            /\ "DEL" \in TeardownOps(i)
            /\ nets[i].Conf.IPMasq => "TeardownIPMasq" \in TeardownOps(i)

\* C5: after a successful kvmSetup every descriptor carries a non-empty
\* interface name, and a kernel link of that name exists.
C5_IfNameIsLiveLink ==
    pc = "ready" =>
        \A i \in DOMAIN nets :
            /\ nets[i].Runtime.IfName # NoName
            /\ nets[i].Runtime.IfName.base # ""
            /\ nets[i].Runtime.IfName \in DOMAIN links

\* a successful setup of a macvlan network next to a flannel-transformed one
C5_Witness ==
    /\ pc = "ready"
    /\ \E i \in DOMAIN nets : nets[i].Conf.Type = "macvlan"
    /\ \E k \in DOMAIN calls : calls[k].op = "kvmTransformFlannelNetwork" /\ calls[k].ok

------------------------------------------------------------------------------
\* Vocabulary of the properties about single steps.

\* positions of the history the step being taken appends
NewCalls == {k \in DOMAIN calls' : k > Len(calls)}
StepCalled(op, ok) == \E k \in NewCalls : calls'[k].op = op /\ calls'[k].ok = ok

\* the bridge devices among the links
Bridges(ls) == {nm \in DOMAIN ls : ls[nm].kind = "bridge"}

\* the bridge a configuration names
BridgeNameOf(bytes) ==
    Name(IF hasKey(bytes.v, "bridge") /\ bytes.v["bridge"].t = "jstring" THEN bytes.v["bridge"].v ELSE "kvm-cni0", -1)

\* the transformer ran to completion for network i
TransformOk(i) ==
    \E k \in DOMAIN calls : calls[k].op = "kvmTransformFlannelNetwork" /\ calls[k].net = i /\ calls[k].ok

\* the delegate object the user wrote in a configuration (empty when none)
UserDelegate(bytes) == IF hasKey(bytes.v, "delegate") THEN bytes.v["delegate"].v ELSE EmptyMap

\* the lease file a configuration points to
LeasePath(bytes) == IF hasKey(bytes.v, "subnetFile") THEN bytes.v["subnetFile"].v ELSE "/run/flannel/subnet.env"

\* the overlay masquerades: the lease file says FLANNEL_IPMASQ=true
LeaseSaysMasq(path) ==
    \E k \in DOMAIN HostFiles[path] : HostFiles[path][k] = Line("FLANNEL_IPMASQ", "true")

------------------------------------------------------------------------------
\* C6: ensureBridgeIsUp on a name that is already a bridge adds no bridge
\* device, fails only when a kernel call fails by itself, and on success has
\* that bridge up and hands it to the caller (the new tap is attached to it);
\* on a free name it creates the bridge and brings it up; on the name of a
\* link that is not a bridge it fails and changes no device.
C6_EnsureBridgeIdempotent ==
    [][(pc = "setup" /\ (StepCalled("ensureBridgeIsUp", TRUE) \/ StepCalled("ensureBridgeIsUp", FALSE))) =>
        LET nm == BridgeNameOf(nets'[idx].ConfBytes)
            ok == StepCalled("ensureBridgeIsUp", TRUE)
            attached == err' = "none" => links'[nets'[idx].Runtime.IfName].master = nm
        IN  /\ (nm \in DOMAIN links /\ links[nm].kind = "bridge") =>
                /\ Bridges(links') = Bridges(links)
                /\ ok => links'[nm].up /\ links'[nm].mtu = links[nm].mtu /\ attached
                /\ ~ok => err' = "kernel" /\ links' = links
            /\ nm \notin DOMAIN links =>
                /\ ok => nm \in Bridges(links') /\ links'[nm].up /\ attached
                /\ ~ok => err' = "kernel"
            /\ (nm \in DOMAIN links /\ links[nm].kind # "bridge") =>
                ~ok /\ err' \in {"conflict", "kernel"} /\ links' = links /\ pc' = "failed"]_vars

\* two networks of one pod ensured the same bridge, the second finding it there
C6_Witness ==
    /\ pc = "ready"
    /\ Len(nets) = 2
    /\ BridgeNameOf(nets[1].ConfBytes) = BridgeNameOf(nets[2].ConfBytes)
    /\ \A i \in {1, 2} : \E k \in DOMAIN calls :
            calls[k].op = "ensureBridgeIsUp" /\ calls[k].net = i /\ calls[k].ok
    /\ Cardinality(Bridges(links)) = 2

C8_DelegateMasqNegatesOverlay ==
    \A i \in DOMAIN nets : (TransformOk(i) /\ ~hasKey(UserDelegate(declared[i]), "ipMasq")) =>
        /\ nets[i].ConfBytes.v["ipMasq"] = JBool(~LeaseSaysMasq(LeasePath(declared[i])))
        /\ nets[i].Conf.IPMasq # LeaseSaysMasq(LeasePath(declared[i]))
        /\ pc = "ready" => (LeaseSaysMasq(LeasePath(declared[i])) <=> masq = {})

\* an overlay whose lease says it does not masquerade got a masquerading delegate
C8_Witness ==
    /\ pc = "ready"
    /\ TransformOk(1)
    /\ ~hasKey(UserDelegate(declared[1]), "ipMasq")
    /\ ~LeaseSaysMasq(LeasePath(declared[1]))
    /\ masq # {}

\* the user's delegate object has a name key, an ipam key, or a type that is not a string
BadDelegate(bytes) ==
    /\ hasKey(bytes.v, "delegate")
    /\ bytes.v["delegate"].t = "jobject"
    /\ \/ hasKey(UserDelegate(bytes), "name")
       \/ hasKey(UserDelegate(bytes), "ipam")
       \/ hasKey(UserDelegate(bytes), "type") /\ UserDelegate(bytes)["type"].t # "jstring"

\* C9: setup of an overlay descriptor with such a delegate returns a
\* configuration error, creates no kernel object and leaves the descriptor as
\* it was.
C9_BadDelegateRejected ==
    [][(pc = "setup" /\ nets[idx].Conf.Type = "flannel" /\ BadDelegate(nets[idx].ConfBytes)) =>
        /\ pc' = "failed" /\ err' = "config" /\ returned' = "nil"
        /\ nets' = nets
        /\ links' = links /\ leases' = leases /\ masq' = masq /\ fwd' = fwd]_vars

------------------------------------------------------------------------------
\* the descriptor the type dispatch of this iteration sees: the transformed
\* one when the overlay transformation of this step ran to completion
Dispatched == IF StepCalled("kvmTransformFlannelNetwork", TRUE) THEN nets'[idx] ELSE nets[idx]

\* this iteration reaches the type dispatch with a known effective type
ReachesDispatch ==
    /\ pc = "setup"
    /\ nets[idx].Conf.Type = "flannel" => StepCalled("kvmTransformFlannelNetwork", TRUE)

\* the macvlan mode a configuration asks for ("" when it gives none)
ModeOf(bytes) == IF hasKey(bytes.v, "mode") /\ bytes.v["mode"].t = "jstring" THEN bytes.v["mode"].v ELSE ""

\* an unsupported variant: a macvlan descriptor with a mode outside the
\* supported ones, or an effective type that is not ptp, bridge or macvlan
UnsupportedMode ==
    /\ Dispatched.Conf.Type = "macvlan"
    /\ ModeOf(Dispatched.ConfBytes) \notin {"", "bridge", "private", "vepa", "passthru"}
UnsupportedType == Dispatched.Conf.Type \notin {"ptp", "bridge", "macvlan"}

\* the iteration fails, with no link created and no allocator invoked
CreatesNothing ==
    /\ pc' = "failed" /\ returned' = "nil"
    /\ links' = links /\ leases' = leases
    /\ ~StepCalled("ADD", TRUE) /\ ~StepCalled("ADD", FALSE)
    /\ ~StepCalled("LinkAdd", TRUE) /\ ~StepCalled("LinkAdd", FALSE)
    /\ ~StepCalled("CreatePersistentIface", TRUE) /\ ~StepCalled("CreatePersistentIface", FALSE)

\* C10 as stated: both unsupported variants fail with an unsupported-type
\* error, with no kernel link created and no allocator invoked.
C10_UnsupportedAlwaysReported ==
    [][(ReachesDispatch /\ (UnsupportedMode \/ UnsupportedType)) =>
        CreatesNothing /\ err' = "unsupported"]_vars

\* C10: both unsupported variants fail with no kernel link created and no
\* allocator invoked; an unsupported effective type is always reported as
\* unsupported, and an unsupported macvlan mode is reported as unsupported
\* once the macvlan configuration was decoded and the master device found:
\* before that the error is the decoding error or the master lookup error.
C10_UnsupportedCreatesNothing ==
    [][(ReachesDispatch /\ (UnsupportedMode \/ UnsupportedType)) =>
        /\ CreatesNothing
        /\ UnsupportedType => err' = "unsupported"
        /\ UnsupportedMode =>
            /\ err' \in {"unsupported", "kernel", "config"}
            /\ err' = "kernel" <=> StepCalled("LinkByName", FALSE)
            /\ err' = "config" <=> (hasKey(Dispatched.ConfBytes.v, "master")
                                        /\ Dispatched.ConfBytes.v["master"].t # "jstring")]_vars

\* after a first network was provisioned, a macvlan network with an unknown
\* mode on an existing master was refused as unsupported
C10_Witness ==
    /\ pc = "failed" /\ err = "unsupported" /\ idx = 2
    /\ nets[2].Conf.Type = "macvlan" /\ ModeOf(nets[2].ConfBytes) = "unknown"
    /\ nets[1].Runtime.IfName \in DOMAIN links

------------------------------------------------------------------------------
\* the networks for which an operation succeeded
Succeeded(op) == {calls[k].net : k \in {j \in DOMAIN calls : calls[j].op = op /\ calls[j].ok}}

\* the masquerade rule of network i, recomputed from the pod identifier and
\* the descriptor alone
RuleOf(i) ==
    [chain |-> "CNI-" \o nets[i].Conf.Name \o "-sha512:" \o PodUUID,
     ip |-> nets[i].Runtime.IP, mask |-> nets[i].Runtime.Mask]

\* C11: the chain name and subnet that teardown passes to the masquerade
\* removal are those setup passed to the installation: the rules in place are
\* always exactly the rules, recomputed from (pod identifier, network name)
\* and the descriptor's address, of the networks whose installation succeeded
\* and whose removal has not succeeded yet, transformed descriptors included.
C11_ChainRecomputed ==
    /\ masq = {RuleOf(i) : i \in Succeeded("SetupIPMasq") \ Succeeded("TeardownIPMasq")}
    /\ \A i \in Succeeded("SetupIPMasq") : nets[i].Conf.IPMasq /\ nets[i].Runtime.IP # NilIP
    /\ \A i, j \in Succeeded("SetupIPMasq") : i # j => RuleOf(i) # RuleOf(j)

\* the rules of a masquerading ptp network and of a masquerading transformed
\* overlay network were installed, and teardown removed both
C11_Witness ==
    /\ pc = "done"
    /\ Succeeded("SetupIPMasq") = {1, 2} /\ Succeeded("TeardownIPMasq") = {1, 2}
    /\ TransformOk(2)
    /\ masq = {}

------------------------------------------------------------------------------
\* the positions of the history at which this step invoked the plugin with cmd
PluginCalls(cmd) == {k \in NewCalls : calls'[k].op = cmd}

\* the type a configuration declares
TypeOf(bytes) == IF hasKey(bytes.v, "type") /\ bytes.v["type"].t = "jstring" THEN bytes.v["type"].v ELSE ""

\* the allocator sub-type a configuration declares
IpamTypeOf(bytes) ==
    IF hasKey(bytes.v, "ipam") /\ bytes.v["ipam"].t = "jobject" /\ hasKey(bytes.v["ipam"].v, "type")
    THEN bytes.v["ipam"].v["type"].v ELSE ""

\* C12: kvmSetupNetAddressing invokes the plugin once, with ADD and the new
\* interface's name, while the descriptor's type holds its allocator sub-type;
\* on every return path (success, plugin failure, unparseable output, missing
\* IPv4 block) the descriptor's type is the one it had before the call, and
\* every other call of the iteration sees that type.
C12_AddUnderIpamType ==
    [][(pc = "setup" /\ PluginCalls("ADD") # {}) =>
        /\ Cardinality(PluginCalls("ADD")) = 1
        /\ \A k \in PluginCalls("ADD") :
            /\ calls'[k].typ = IpamTypeOf(Dispatched.ConfBytes)
            /\ calls'[k].typ # TypeOf(Dispatched.ConfBytes)
            /\ calls'[k].ok => \E l \in leases' \ leases :
                                    l.ifName = nets'[idx].Runtime.IfName /\ l.ifName \in DOMAIN links'
            /\ ~calls'[k].ok => leases' = leases /\ err' = "plugin"
        /\ nets'[idx].Conf.Type = TypeOf(Dispatched.ConfBytes)
        /\ \A k \in NewCalls \ PluginCalls("ADD") :
            calls'[k].op # "kvmTransformFlannelNetwork" => calls'[k].typ = TypeOf(Dispatched.ConfBytes)]_vars

\* the allocation for a transformed overlay network failed in the plugin or
\* on its output, after its tap was created
C12_Witness ==
    /\ pc = "failed" /\ err = "plugin"
    /\ TransformOk(idx)
    /\ nets[idx].Conf.Type = "ptp"
    /\ nets[idx].Runtime.IfName \in DOMAIN links

\* C13: teardown invokes the plugin with DEL while the descriptor's type holds
\* its allocator sub-type, and after the invocation, failed or not, the type
\* is the declared one again: after teardownKvmNets every descriptor has the
\* type it had before teardown.
C13_TeardownRestoresType ==
    /\ \A k \in TeardownCalls : calls[k].op = "DEL" => calls[k].typ = IpamTypeOf(nets[calls[k].net].ConfBytes)
    /\ pc \in {"teardown", "done"} =>
        \A i \in DOMAIN nets : nets[i].Conf.Type = TypeOf(nets[i].ConfBytes)

------------------------------------------------------------------------------
\* the IPv4 routes through the interface of network i
RoutesOf(i) == links[nets[i].Runtime.IfName].routes

\* the host route to the pod's address on network i
HostRoute(i) == [dst |-> nets[i].Runtime.IP, mask |-> 32]

\* the route operations of setup
RouteOps == {"RouteList", "RouteDel", "RouteAdd"}

\* C14 as stated: after a successful setup the tap of every ptp and of every
\* bridge descriptor carries exactly one IPv4 route, the host route to the
\* pod's address.
C14_EveryTapHasHostRoute ==
    pc = "ready" =>
        \A i \in DOMAIN nets : nets[i].Conf.Type \in {"ptp", "bridge"} => RoutesOf(i) = {HostRoute(i)}

\* C14: for a ptp descriptor setup removes every route of the new tap (the
\* connected route its address brought) and adds the host route to the pod's
\* address, so after a successful setup the tap carries exactly that route;
\* for a bridge descriptor setup programs no route: the tap is enslaved to the
\* bridge and carries none.
C14_PtpTapHasHostRoute ==
    pc = "ready" =>
        \A i \in DOMAIN nets :
            /\ nets[i].Conf.Type = "ptp" =>
                /\ RoutesOf(i) = {HostRoute(i)}
                /\ {"RouteDel", "RouteAdd"} \subseteq SetupOps(i)
                /\ links[nets[i].Runtime.IfName].addrs # {}
            /\ nets[i].Conf.Type = "bridge" =>
                /\ RoutesOf(i) = {}
                /\ SetupOps(i) \cap RouteOps = {}

\* a ptp network and a bridge network of one pod were provisioned
C14_Witness ==
    /\ pc = "ready"
    /\ \E i \in DOMAIN nets : nets[i].Conf.Type = "ptp" /\ RoutesOf(i) = {HostRoute(i)}
    /\ \E i \in DOMAIN nets : nets[i].Conf.Type = "bridge" /\ nets[i].Runtime.IfName \in DOMAIN links

------------------------------------------------------------------------------
\* this iteration runs setupMacVTapDevice
MacvtapStep == pc = "setup" /\ Dispatched.Conf.Type = "macvlan"

\* the macvtap link was created and the function then failed: bringing the
\* link up failed (the iteration never reached the address allocation)
BringUpFailed ==
    /\ MacvtapStep
    /\ StepCalled("LinkAdd", TRUE)
    /\ err' # "none"
    /\ ~StepCalled("EnableIP4Forward", TRUE) /\ ~StepCalled("EnableIP4Forward", FALSE)

\* the macvtap links among the links
Macvtaps(ls) == {nm \in DOMAIN ls : ls[nm].kind = "macvtap"}

\* C15 as stated: when bringing the created macvtap link up fails, no macvtap
\* link created by the failed call remains; when the creation fails nothing
\* is created.
C15_NoOrphanedMacvtap ==
    [][/\ BringUpFailed => links' = links /\ pc' = "failed"
       /\ (MacvtapStep /\ StepCalled("LinkAdd", FALSE)) => links' = links /\ pc' = "failed"]_vars

\* C15: when bringing the created macvtap link up fails, the deletion of the
\* link is attempted before the error of the bring-up is returned, and the
\* outcome of the deletion is ignored: no macvtap link of the failed call
\* remains when the deletion succeeds, and the link stays behind, down, when
\* the deletion fails too; when the creation fails nothing is created.
C15_MacvtapDeletedBestEffort ==
    [][/\ BringUpFailed =>
            /\ pc' = "failed" /\ err' = "kernel"
            /\ StepCalled("LinkDel", TRUE) \/ StepCalled("LinkDel", FALSE)
            /\ StepCalled("LinkDel", TRUE) => links' = links
            /\ StepCalled("LinkDel", FALSE) =>
                /\ Cardinality(Macvtaps(links') \ Macvtaps(links)) = 1
                /\ \A nm \in DOMAIN links : nm \in DOMAIN links' /\ links'[nm] = links[nm]
                /\ \A nm \in Macvtaps(links') \ Macvtaps(links) : ~links'[nm].up
            /\ log' = log
       /\ (MacvtapStep /\ StepCalled("LinkAdd", FALSE)) => links' = links /\ pc' = "failed"]_vars

\* the macvtap link of the second network was created, could not be brought
\* up, and was deleted again
C15_Witness ==
    /\ pc = "failed" /\ err = "kernel" /\ idx = 2
    /\ Len(calls) >= 2
    /\ calls[Len(calls)] = [op |-> "LinkDel", net |-> 2, typ |-> "macvlan", ok |-> TRUE]
    /\ calls[Len(calls) - 1] = [op |-> "LinkAdd", net |-> 2, typ |-> "macvlan", ok |-> TRUE]
    /\ Name("rkt-abcd-vtap", 1) \notin DOMAIN links

------------------------------------------------------------------------------
\* this iteration provisions a bridge network and its allocation succeeded,
\* so that kvm.go:509 is reached
BridgeAllocated ==
    /\ pc = "setup" /\ Dispatched.Conf.Type = "bridge"
    /\ StepCalled("ADD", TRUE) /\ err' # "plugin"

\* the configuration marks the network as the gateway network
IsGatewayOf(bytes) == hasKey(bytes.v, "isGateway") /\ bytes.v["isGateway"] = JBool(TRUE)

\* the IPv4 addresses link nm carries in ls (none when there is no such link)
AddrsOf(ls, nm) == IF nm \in DOMAIN ls THEN ls[nm].addrs ELSE {}

\* the address calls of ensureHasAddr
AddrCalled == \E ok \in BOOLEAN : StepCalled("AddrList", ok) \/ StepCalled("AddrAdd", ok)

\* C16: for a gateway bridge network ensureHasAddr never overrides an address
\* of the bridge: on a bridge without address the allocated gateway address is
\* added (or nothing, when a kernel call fails by itself); when the bridge
\* carries the intended address the call succeeds and changes nothing; when it
\* carries other addresses only, setup fails and the addresses stay.  For a
\* bridge network that is not the gateway no address call is made and the
\* bridge's addresses stay.
C16_BridgeAddrNeverOverridden ==
    [][BridgeAllocated =>
        LET br == BridgeNameOf(Dispatched.ConfBytes)
            old == AddrsOf(links, br)
            new == AddrsOf(links', br)
            intended == [ip |-> nets'[idx].Runtime.IP4.Gateway, mask |-> nets'[idx].Runtime.Mask]
        IN  /\ intended.ip # NilIP /\ intended.ip # nets'[idx].Runtime.IP
            /\ (IsGatewayOf(Dispatched.ConfBytes) /\ old = {}) =>
                /\ new \in {{}, {intended}}
                /\ new = {intended} <=> StepCalled("AddrAdd", TRUE)
                /\ new = {} => err' = "kernel"
            /\ (IsGatewayOf(Dispatched.ConfBytes) /\ intended \in old) =>
                /\ new = old
                /\ err' \notin {"conflict"}
                /\ ~StepCalled("AddrAdd", TRUE) /\ ~StepCalled("AddrAdd", FALSE)
                /\ err' = "kernel" => StepCalled("AddrList", FALSE) \/ StepCalled("SetupIPMasq", FALSE)
            /\ (IsGatewayOf(Dispatched.ConfBytes) /\ old # {} /\ intended \notin old) =>
                /\ new = old
                /\ pc' = "failed" /\ err' \in {"conflict", "kernel"}
                /\ err' = "kernel" <=> StepCalled("AddrList", FALSE)
                /\ ~StepCalled("AddrAdd", TRUE) /\ ~StepCalled("AddrAdd", FALSE)
            /\ ~IsGatewayOf(Dispatched.ConfBytes) => new = old /\ ~AddrCalled]_vars

\* the second gateway network of the pod found the bridge of the first one
\* carrying the gateway address of another subnet, and was refused
C16_Witness ==
    /\ pc = "failed" /\ err = "conflict" /\ idx = 2
    /\ Len(calls) > 0 /\ calls[Len(calls)].op = "AddrList" /\ calls[Len(calls)].ok
    /\ AddrsOf(links, Name("kvm-cni0", -1)) = {[ip |-> Addr("10.0.2.0/24", 1), mask |-> 24]}
    /\ nets[2].Runtime.IP4.Gateway = Addr("10.0.3.0/24", 1)

------------------------------------------------------------------------------
\* the four runtime address fields of a descriptor carry nothing: address,
\* mask and host gateway are nil and the IPv4 block is nil or empty
AddressUnset(r) ==
    /\ r.IP = NilIP /\ r.Mask = 0 /\ r.HostIP = NilIP
    /\ r.IP4.st \in {"nil", "zero"} /\ r.IP4.IP = NilIP /\ r.IP4.Mask = 0 /\ r.IP4.Gateway = NilIP

\* the four runtime address fields carry one allocator result
AddressSet(r) ==
    /\ r.IP4.st = "set"
    /\ r.IP = r.IP4.IP /\ r.Mask = r.IP4.Mask /\ r.HostIP = r.IP4.Gateway
    /\ r.IP # NilIP /\ r.Mask # 0 /\ r.HostIP # NilIP

\* C17: in every state each descriptor's runtime address fields (address,
\* mask, host gateway, IPv4 block) are all unset or all set from one allocator
\* result, the one that holds the lease of the descriptor's interface; they
\* are unset after a flannel transformation and after a failed allocation,
\* and set for every provisioned descriptor.
C17_AddressAllOrNothing ==
    /\ \A i \in DOMAIN nets : AddressUnset(nets[i].Runtime) \/ AddressSet(nets[i].Runtime)
    /\ pc \in {"setup", "forward", "ready", "failed", "crashed"} =>
        \A i \in DOMAIN nets :
            /\ AddressSet(nets[i].Runtime) =>
                [ifName |-> nets[i].Runtime.IfName, ip |-> nets[i].Runtime.IP] \in leases
            /\ i < idx => AddressSet(nets[i].Runtime)
            /\ i > idx => AddressUnset(nets[i].Runtime)
    /\ pc \in {"forward", "ready"} => \A i \in DOMAIN nets : AddressSet(nets[i].Runtime)
    /\ (pc = "failed" /\ err = "plugin") => AddressUnset(nets[idx].Runtime)

\* the first network is provisioned and the allocation of the second, a
\* transformed overlay network, failed: its IPv4 block is the empty one
C17_Witness ==
    /\ pc = "failed" /\ err = "plugin" /\ idx = 2
    /\ TransformOk(2)
    /\ nets[2].Runtime.IP4 = ZeroIP4
    /\ AddressSet(nets[1].Runtime)

------------------------------------------------------------------------------
\* the descriptors provisioned so far
Provisioned == {i \in DOMAIN nets : i < idx \/ pc \in {"forward", "ready"}}

\* C18: while the pod is set up, the interface names of the provisioned
\* descriptors are pairwise distinct: a ptp or bridge descriptor has a tap name
\* "rkt-<4 characters of the pod id>-tap<n>" numbered by the kernel, a macvlan
\* descriptor has "rkt-<the same 4 characters>-vtap<its 0-based position>",
\* and each name is the name of a link of its own.
C18_IfNamesDistinct ==
    pc \in {"setup", "forward", "ready", "failed", "crashed"} =>
        /\ \A i, j \in Provisioned : i # j => nets[i].Runtime.IfName # nets[j].Runtime.IfName
        /\ \A i \in Provisioned :
            /\ nets[i].Conf.Type \in {"ptp", "bridge"} =>
                /\ nets[i].Runtime.IfName.base = "rkt-abcd-tap" /\ nets[i].Runtime.IfName.num >= 0
                /\ links[nets[i].Runtime.IfName].kind = "tap"
            /\ nets[i].Conf.Type = "macvlan" =>
                /\ nets[i].Runtime.IfName = Name("rkt-abcd-vtap", i - 1)
                /\ links[nets[i].Runtime.IfName].kind = "macvtap"
        /\ "abcd" \o "1234" = PodUUID

\* two tap networks of one pod got the kernel's numbers 0 and 1
C18_Witness ==
    /\ pc = "ready" /\ Len(nets) = 2
    /\ nets[1].Runtime.IfName = Name("rkt-abcd-tap", 0)
    /\ nets[2].Runtime.IfName = Name("rkt-abcd-tap", 1)

------------------------------------------------------------------------------
\* the positions of the history at which the port forwards were installed
ForwardCalls == {k \in DOMAIN calls : calls[k].op = "forwardPorts"}

\* the forwarding rule of the j-th declared port, to the address of the pod's
\* first network
ForwardRule(j) == [port |-> Fps[j], ip |-> nets[1].Runtime.IP]

\* C19: the port forwards are installed at most once per setup and only after
\* every declared network was provisioned, so no rule exists while a network
\* is still to be provisioned; every rule targets the address of the pod's
\* first network, and after a successful setup there is exactly one rule per
\* declared port.
C19_ForwardsAfterAllNetworks ==
    /\ Cardinality(ForwardCalls) <= 1
    /\ pc \in {"load", "setup", "forward"} => fwd = {} /\ ForwardCalls = {}
    /\ fwd # {} => ForwardCalls # {}
    /\ \A k \in ForwardCalls :
        /\ \A i \in DOMAIN nets : i \in Succeeded("ADD") /\ nets[i].Runtime.IfName # NoName
        /\ \A u \in DOMAIN calls : calls[u].op \in {"CreatePersistentIface", "LinkAdd", "ADD", "SetupIPMasq"} => u < k
    /\ \A r \in fwd : \E j \in DOMAIN Fps : r = ForwardRule(j)
    /\ pc = "ready" =>
        /\ fwd = {ForwardRule(j) : j \in DOMAIN Fps}
        /\ Cardinality(fwd) = Len(Fps)
        /\ nets[1].Runtime.IP # NilIP

\* both declared ports of a pod with two networks are forwarded to the
\* address of the first network, which is not the address of the second
C19_Witness ==
    /\ pc = "ready" /\ Len(nets) = 2
    /\ Cardinality(fwd) = 2
    /\ nets[2].Runtime.IP # nets[1].Runtime.IP
    /\ \A r \in fwd : r.ip = nets[1].Runtime.IP

------------------------------------------------------------------------------
\* the positions of the history that belong to the loop of kvmSetup
LoopCalls == (DOMAIN calls \ TeardownCalls) \ ForwardCalls

\* the place of an operation in the provisioning of one network: the flannel
\* transformation, the creation of the interface (with the cleanup of a
\* creation that failed), the enabling of IPv4 forwarding, the allocation, the
\* programming of addresses and routes, the masquerade rule
Phase(op) ==
    CASE op = "kvmTransformFlannelNetwork" -> 1
      [] op \in {"ensureBridgeIsUp", "CreatePersistentIface", "LinkByName", "LinkAdd", "LinkSetMaster",
                 "LinkDel", "RemovePersistentIface"} -> 2
      [] op = "EnableIP4Forward" -> 3
      [] op = "ADD" -> 4
      [] op \in {"AddrList", "AddrAdd", "RouteList", "RouteDel", "RouteAdd"} -> 5
      [] op = "SetupIPMasq" -> 6

\* operations that create the interface of a network, and those that clean up
\* after a creation that failed
CreationOps == {"CreatePersistentIface", "LinkAdd"}
CleanupOps == {"LinkDel", "RemovePersistentIface"}

\* C20: setup processes the networks one at a time in declaration order; for
\* each network the flannel transformation (only for a declared flannel
\* type) comes before the type dispatch, then the interface is created, IPv4
\* forwarding enabled, the allocator invoked with ADD, and last the
\* masquerade rule installed (only, and always, for a descriptor that asks
\* for it); a step that failed is followed by nothing but the cleanup of that
\* step, and ADD is invoked only right after IPv4 forwarding was enabled and
\* after the descriptor's interface was created.
C20_SetupOrder ==
    /\ \A k, u \in LoopCalls : k < u =>
        /\ calls[k].net <= calls[u].net
        /\ calls[k].net = calls[u].net => Phase(calls[k].op) <= Phase(calls[u].op)
        /\ ~calls[k].ok => u = k + 1 /\ calls[u].op \in CleanupOps /\ calls[u].net = calls[k].net
    /\ \A k \in LoopCalls :
        /\ calls[k].net \in 1..Len(nets)
        /\ ~calls[k].ok => pc \in {"failed", "crashed", "panicked"}
        /\ calls[k].op = "kvmTransformFlannelNetwork" => TypeOf(declared[calls[k].net]) = "flannel"
        /\ (Phase(calls[k].op) > 1 /\ TypeOf(declared[calls[k].net]) = "flannel") => TransformOk(calls[k].net)
        /\ calls[k].op = "ADD" =>
            /\ k - 1 \in LoopCalls
            /\ calls[k - 1] = [op |-> "EnableIP4Forward", net |-> calls[k].net,
                               typ |-> TypeOf(nets[calls[k].net].ConfBytes), ok |-> TRUE]
            /\ \E u \in LoopCalls : u < k /\ calls[u].net = calls[k].net /\ calls[u].op \in CreationOps /\ calls[u].ok
            /\ \A u \in LoopCalls : (u < k /\ calls[u].net = calls[k].net) => calls[u].op \notin CleanupOps
        /\ calls[k].op = "SetupIPMasq" => nets[calls[k].net].Conf.IPMasq /\ calls[k].net \in Succeeded("ADD")
    /\ pc \in {"setup", "forward", "ready"} =>
        \A i \in Provisioned : nets[i].Conf.IPMasq <=> i \in Succeeded("SetupIPMasq")

\* a transformed overlay network that masquerades and a macvlan network were
\* provisioned one after the other
C20_Witness ==
    /\ pc = "ready" /\ Len(nets) = 2
    /\ TransformOk(1) /\ 1 \in Succeeded("SetupIPMasq")
    /\ nets[2].Conf.Type = "macvlan" /\ 2 \in Succeeded("ADD")

------------------------------------------------------------------------------
\* the iteration being taken ends kvmSetup with a failure
SetupFails == pc = "setup" /\ pc' \in {"failed", "crashed"}

\* C21: when the provisioning of a network fails, kvmSetup leaves what the
\* earlier networks of the pod got as it was: their descriptors, their kernel
\* interfaces, their address leases and their masquerade rules; it removes no
\* link, releases no lease and removes no rule before it returns.
C21_NoRollback ==
    [][SetupFails =>
        /\ \A i \in 1..(idx - 1) :
            /\ nets'[i] = nets[i]
            /\ nets[i].Runtime.IfName \in DOMAIN links /\ nets[i].Runtime.IfName \in DOMAIN links'
            /\ links'[nets[i].Runtime.IfName] = links[nets[i].Runtime.IfName]
            /\ [ifName |-> nets[i].Runtime.IfName, ip |-> nets[i].Runtime.IP] \in leases'
            /\ nets[i].Conf.IPMasq => RuleOf(i) \in masq'
        /\ leases \subseteq leases' /\ masq \subseteq masq'
        /\ DOMAIN links \subseteq DOMAIN links'
        /\ \A k \in NewCalls : calls'[k].op \notin {"DEL", "TeardownIPMasq"}
        /\ fwd' = fwd]_vars

\* the second network failed on a kernel call while the first, which
\* masquerades, keeps its interface, lease and rule
C21_Witness ==
    /\ pc = "failed" /\ err = "kernel" /\ idx = 2
    /\ nets[1].Conf.IPMasq /\ masq = {RuleOf(1)}
    /\ leases = {[ifName |-> nets[1].Runtime.IfName, ip |-> nets[1].Runtime.IP]}
    /\ nets[1].Runtime.IfName \in DOMAIN links

------------------------------------------------------------------------------
\* descriptor i got its teardown iteration: a device removal was attempted
\* for it, or its type was logged as unsupported
Visited(i) ==
    \/ TeardownOps(i) \cap {"RemovePersistentIface", "LinkByName"} # {}
    \/ \E k \in LogEntries(i) : log[k].msg = "unsupported network type"

\* the descriptors whose link lookup failed in teardown
LookupFailed == {calls[k].net : k \in {j \in TeardownCalls : calls[j].op = "LinkByName" /\ ~calls[j].ok}}

\* the descriptors teardown did not recognize the type of
Unrecognized == {log[k].net : k \in {j \in DOMAIN log : log[j].msg = "unsupported network type"}}

\* the teardown iteration being taken goes on to the next descriptor
LoopContinues == idx' = idx + 1 /\ pc' = IF idx < Len(nets) THEN "teardown" ELSE "done"

\* C22: in teardown, a macvlan descriptor whose link lookup fails is logged
\* ("cannot find link") and the loop goes on to the next descriptor; a
\* descriptor of an unrecognized type is logged as unsupported and the loop
\* goes on as well; when the loop ends, every descriptor positioned after such
\* a descriptor has had its own teardown iteration.
C22_TeardownContinues ==
    /\ [][pc = "teardown" =>
            /\ StepCalled("LinkByName", FALSE) =>
                /\ nets[idx].Conf.Type = "macvlan"
                /\ log' = Append(log, [msg |-> "cannot find link", net |-> idx])
                /\ LoopContinues
            /\ nets[idx].Conf.Type \notin {"ptp", "bridge", "macvlan"} =>
                /\ log' = Append(log, [msg |-> "unsupported network type", net |-> idx])
                /\ calls' = calls
                /\ LoopContinues]_vars
    /\ [](pc = "done" => \A j \in LookupFailed \cup Unrecognized : \A i \in DOMAIN nets : i > j => Visited(i))

\* teardown ended after a failed link lookup on the first descriptor and an
\* unrecognized type on the second
C22_Witness ==
    /\ pc = "done" /\ Len(nets) = 2
    /\ LookupFailed = {1} /\ Unrecognized = {2}

------------------------------------------------------------------------------
\* C23: when two pods set up a bridge network at the same time against the
\* same bridge name and the same gateway address, under every interleaving of
\* their bridge-ensure and gateway-address-ensure steps both setups succeed,
\* and the host ends with one bridge device of that name carrying exactly
\* that address.
C23_ConcurrentSetupsSucceed ==
    (\A p \in Pods : pc[p] \in {"done", "failed"}) =>
        /\ \A p \in Pods : pc[p] = "done" /\ err[p] = "none"
        /\ SharedBr \in Bridges(links)
        /\ links[SharedBr].addrs = {SharedGw}

------------------------------------------------------------------------------
\* kvmSetup returned the aggregate with every declared network provisioned
SetupProvisionedAll ==
    pc = "ready" /\ returned = "aggregate" /\ \A i \in DOMAIN nets : i \in Succeeded("ADD")

\* kvmSetup returned nil and an error
SetupReturnedFailure == pc = "failed" /\ returned = "nil" /\ err # "none"

\* the teardown iterations descriptor i got (each starts with one device call)
Visits(i) ==
    {k \in TeardownCalls : calls[k].net = i /\ calls[k].op \in {"RemovePersistentIface", "LinkByName"}}

\* C24: when every kernel call and plugin invocation returns, kvmSetup
\* eventually ends having provisioned every declared network or having
\* returned a hard failure, and a started teardown eventually ends having
\* visited every descriptor of the aggregate exactly once.
C24_Terminates ==
    /\ <>(SetupProvisionedAll \/ SetupReturnedFailure)
    /\ (pc = "teardown") ~> (pc = "done" /\ \A i \in DOMAIN nets : Cardinality(Visits(i)) = 1)

------------------------------------------------------------------------------
\* the overlay configuration decodes, its delegate passes the validation of
\* the transformer and its lease file parses without error
PassesValidation(bytes) ==
    /\ loadFlannelNetConf(bytes).ok
    /\ ~DelegateRejected(loadFlannelNetConf(bytes))
    /\ loadFlannelSubnetEnv(loadFlannelNetConf(bytes).SubnetFile).st = "ok"

\* C25: kvmTransformFlannelNetwork is total: for an overlay configuration
\* whose delegate passes validation and a lease file that parses without
\* error it either returns an error with the descriptor unchanged or replaces
\* the descriptor in full (name, effective type, ipMasq, mtu, allocator
\* sub-type); the call never aborts.
C25_TransformerTotal ==
    [][(pc = "setup" /\ nets[idx].Conf.Type = "flannel" /\ PassesValidation(nets[idx].ConfBytes)) =>
        /\ pc' # "crashed" /\ err' # "panic"
        /\ \/ StepCalled("kvmTransformFlannelNetwork", FALSE) /\ nets' = nets
           \/ /\ StepCalled("kvmTransformFlannelNetwork", TRUE)
              /\ nets'[idx].Conf.Name = nets[idx].Conf.Name
              /\ nets'[idx].Conf.Type # "flannel"
              /\ nets'[idx].Conf.IPAM.Type = "host-local"
              /\ nets'[idx].ConfBytes # nets[idx].ConfBytes]_vars

------------------------------------------------------------------------------
\* the tap interfaces among the links
Taps(ls) == {nm \in DOMAIN ls : ls[nm].kind = "tap"}

\* C26: in the bridge path, when attaching the new tap interface to the
\* bridge fails, kvmSetup returns the error with the tap it had just created
\* removed: the host has the tap interfaces it had before the iteration.
C26_FailedAttachRemovesTap ==
    [][(pc = "setup" /\ StepCalled("LinkSetMaster", FALSE)) =>
        /\ pc' = "failed" /\ err' = "kernel"
        /\ StepCalled("CreatePersistentIface", TRUE)
        /\ Taps(links') = Taps(links)]_vars

------------------------------------------------------------------------------
\* the types teardownKvmNets knows how to remove the device of
TeardownTypes == {"ptp", "bridge", "macvlan"}

\* the descriptors teardown has not visited yet
Unvisited == {i \in DOMAIN nets : pc = "ready" \/ (pc = "teardown" /\ i >= idx)}

\* C27: after a successful kvmSetup every descriptor of the aggregate has an
\* effective type of ptp, bridge or macvlan, and keeps it until teardown
\* visits it; teardown never logs an unsupported network type, and it removes
\* the device of each descriptor it visited by the method of the type the
\* device was created under: tap removal for a tap (ptp, bridge), link lookup
\* and deletion for a macvtap link (macvlan).
C27_TeardownMatchesType ==
    pc \in {"ready", "teardown", "done"} =>
        /\ \A i \in Unvisited : nets[i].Conf.Type \in TeardownTypes
        /\ \A k \in DOMAIN log : log[k].msg # "unsupported network type"
        /\ \A i \in DOMAIN nets \ Unvisited :
            /\ "CreatePersistentIface" \in SetupOps(i) <=> "RemovePersistentIface" \in TeardownOps(i)
            /\ "LinkAdd" \in SetupOps(i) <=> "LinkByName" \in TeardownOps(i)
            /\ "CreatePersistentIface" \in SetupOps(i) <=> "LinkAdd" \notin SetupOps(i)
            /\ \A k \in TeardownCalls :
                (calls[k].net = i /\ calls[k].op = "RemovePersistentIface") => calls[k].typ \in {"ptp", "bridge"}
            /\ \A k \in TeardownCalls :
                (calls[k].net = i /\ calls[k].op \in {"LinkByName", "LinkDel"}) => calls[k].typ = "macvlan"

\* the teardown of a macvlan network and of a transformed overlay network
\* has ended, the one by link deletion, the other by tap removal
C27_Witness ==
    /\ pc = "done"
    /\ \E i \in DOMAIN nets : "LinkDel" \in TeardownOps(i)
    /\ \E j \in DOMAIN nets : TransformOk(j) /\ "RemovePersistentIface" \in TeardownOps(j)

====
